---- MODULE Spec2Model ----
(***************************************************************************)
(* A model of spatialdata's SpatialData container                          *)
(* (src/spatialdata/_core/spatialdata.py) and of read_zarr                  *)
(* (src/spatialdata/_io/io_zarr.py).                                        *)
(*                                                                         *)
(* The container owns five registries (images, labels, points, shapes,     *)
(* tables).  Every registry keeps a reference to a set object of names,    *)
(* handed to it when it is built; python sets are objects, so the model    *)
(* keeps a small heap of set objects (keysets) and the references into it  *)
(* (keyref per registry, shared_keys for SpatialData._shared_keys).        *)
(***************************************************************************)
EXTENDS Integers, Sequences, FiniteSets, TLC

VARIABLES
    reg,          \* [kind -> [name -> value]]: _images, _labels, _points, _shapes, _tables
    keyref,       \* [kind -> object id]: the set object each registry was built with
    keysets,      \* [object id -> set of names]: the heap of set objects
    shared_keys,  \* object id: SpatialData._shared_keys
    ledger,       \* [element object -> [coordinate system -> transformation]]
    path,         \* SpatialData._path: the store backing the container, or None
    disk,         \* [path that exists -> what is there]
    backing,      \* [element object -> the files its lazy data is read from]
    written,      \* the stores the container has written with success
    last          \* the last call: what was called, with what, and how it ended

vars == <<reg, keyref, keysets, shared_keys, ledger, path, disk, backing, written, last>>

-----------------------------------------------------------------------------
(* Bounds *)

MaxElems == 4       \* spatial element objects available to the callers
MaxDict == 2        \* entries of a dict handed to a constructor or a bulk setter
MaxInit == 3        \* entries of the five dicts of a constructor together
MaxSetObjects == 2  \* set objects of names alive at a time
MaxRegions == 2     \* length of a table's region list
MaxRows == 2        \* rows of a table
MaxRename == 2      \* entries of the dict handed to rename_coordinate_systems

-----------------------------------------------------------------------------
(* Names, kinds, values *)

\* the order of _gen_elements(include_table=True)
Kinds == <<"images", "labels", "points", "shapes", "tables">>
KindSet == {Kinds[i] : i \in 1..Len(Kinds)}
SpatialKinds == {Kinds[i] : i \in 1..4}

Names == {"a", "b"}

ObjIds == 0 .. (MaxSetObjects - 1)

EmptyDict == <<>>

Range(f) == {f[x] : x \in DOMAIN f}

\* the schema get_model finds for an element object, by the object's number
SchemaCycle == <<"Labels2DModel", "ShapesModel", "PointsModel", "Image2DModel",
                 "Labels3DModel", "ShapesModel", "PointsModel", "Image3DModel">>
ElemSchema(e) == SchemaCycle[((e - 1) % Len(SchemaCycle)) + 1]

\* the dtype of an element's identifiers: element.dtype for a raster,
\* element.index.dtype for points and shapes
ElemDtype(e) ==
    CASE ElemSchema(e) \in {"Labels2DModel", "Labels3DModel"} -> "int32"
      [] ElemSchema(e) \in {"Image2DModel", "Image3DModel"} -> "float32"
      [] ElemSchema(e) = "PointsModel" -> "int64"
      [] OTHER -> IF ((e - 1) \div 4) % 2 = 0 THEN "str" ELSE "int64"

Elem(e) == [model |-> ElemSchema(e), id |-> e]
Elems == {Elem(e) : e \in 1..MaxElems}

NoAttrs == [region |-> <<>>, region_key |-> "", instance_key |-> ""]

\* a table: uns is TableModel.ATTRS_KEY's record (has_attrs says whether
\* table.uns holds one), obs maps a column name to its values, one per row,
\* dtypes gives each column's dtype
Table(has, attrs, obs, dtypes) ==
    [model |-> "TableModel", has_attrs |-> has, uns |-> attrs, obs |-> obs, dtypes |-> dtypes]

get_model(value) == value.model

KindOfSchema(schema) ==
    CASE schema \in {"Image2DModel", "Image3DModel"} -> "images"
      [] schema \in {"Labels2DModel", "Labels3DModel"} -> "labels"
      [] schema = "PointsModel" -> "points"
      [] schema = "ShapesModel" -> "shapes"
      [] schema = "TableModel" -> "tables"
      [] OTHER -> "unknown"

-----------------------------------------------------------------------------
(* The container as a value, so that a call is a function of it *)

World == [reg |-> reg, keyref |-> keyref, keysets |-> keysets, shared_keys |-> shared_keys]

\* set objects no reference reaches are dropped (their content is forgotten)
Collect(w) ==
    LET live == Range(w.keyref) \cup {w.shared_keys}
    IN [w EXCEPT !.keysets = [o \in ObjIds |-> IF o \in live THEN w.keysets[o] ELSE {}]]

Install(w) ==
    LET c == Collect(w)
    IN /\ reg' = c.reg
       /\ keyref' = c.keyref
       /\ keysets' = c.keysets
       /\ shared_keys' = c.shared_keys
       /\ UNCHANGED <<ledger, path, disk, backing, written>>

\* SpatialData.__init__, lines 122-129: one set, shared by the five registries
EmptyWorldSeparateTables ==
    [reg |-> [k \in KindSet |-> EmptyDict],
     keyref |-> [k \in KindSet |-> IF k = "tables" THEN 1 ELSE 0],
     keysets |-> [o \in ObjIds |-> {}],
     shared_keys |-> 0]

EmptyWorld ==
    [reg |-> [k \in KindSet |-> EmptyDict],
     keyref |-> [k \in KindSet |-> 0],
     keysets |-> [o \in ObjIds |-> {}],
     shared_keys |-> 0]

\* how a call ends: the container after it, the exception ("ok" for none),
\* the regions it warned about
Ok(w) == [w |-> w, err |-> "ok", warned |-> <<>>]
Raise(w, e) == [w |-> w, err |-> e, warned |-> <<>>]

\* Elements.__setitem__ of one registry: the name check against the set the
\* registry holds, the schema check of the kind, then the insertion
ElementsSetItem(w, kind, key, value) ==
    IF key \notin DOMAIN w.reg[kind] /\ key \in w.keysets[w.keyref[kind]]
    THEN Raise(w, "KeyError")
    ELSE IF KindOfSchema(get_model(value)) # kind
    THEN Raise(w, "TypeError")
    ELSE Ok([w EXCEPT !.reg[kind] = (key :> value) @@ @,
                      !.keysets[w.keyref[kind]] = @ \cup {key}])

\* Elements.__delitem__ of one registry
ElementsDelItem(w, kind, key) ==
    IF key \notin DOMAIN w.reg[kind]
    THEN Raise(w, "KeyError")
    ELSE Ok([w EXCEPT !.reg[kind] = [n \in (DOMAIN @) \ {key} |-> @[n]],
                      !.keysets[w.keyref[kind]] = @ \ {key}])

\* for k, v in d.items(): registry[k] = v   (stops at the first exception)
RECURSIVE InsertAll(_, _, _)
InsertAll(w, kind, items) ==
    IF items = <<>> THEN Ok(w)
    ELSE LET r == ElementsSetItem(w, kind, Head(items)[1], Head(items)[2])
         IN IF r.err # "ok" THEN r ELSE InsertAll(r.w, kind, Tail(items))

\* the bulk setter of one kind, e.g. lines 1333-1339: a NEW set object
\* (set difference builds one) becomes SpatialData._shared_keys and the set of
\* the rebuilt registry; the other registries keep the object they hold
FreshObj(w, kind) ==
    LET used == {w.keyref[k] : k \in KindSet \ {kind}}
    IN CHOOSE o \in ObjIds \ used : \A p \in ObjIds \ used : o <= p

KindSetter(w, kind, items) ==
    LET o == FreshObj(w, kind)
        fresh == w.keysets[w.shared_keys] \ DOMAIN w.reg[kind]
        w1 == [w EXCEPT !.shared_keys = o,
                        !.keyref[kind] = o,
                        !.keysets[o] = fresh,
                        !.reg[kind] = EmptyDict]
    IN InsertAll(w1, kind, items)

images_setter(w, items) == KindSetter(w, "images", items)
labels_setter(w, items) == KindSetter(w, "labels", items)
points_setter(w, items) == KindSetter(w, "points", items)
shapes_setter(w, items) == KindSetter(w, "shapes", items)
tables_setter(w, items) == KindSetter(w, "tables", items)

AllHeld(w) == UNION {DOMAIN w.reg[k] : k \in KindSet}

\* the kinds holding key, as positions of the order of gen_elements
FoundIn(w, key) == {i \in 1..Len(Kinds) : key \in DOMAIN w.reg[Kinds[i]]}
First(S) == CHOOSE i \in S : \A j \in S : i <= j

\* SpatialData.get, lines 1778-1782: the first match in the order of
\* gen_elements, or the default
DefaultValue == [model |-> "default"]
get(w, key, default_value) ==
    IF FoundIn(w, key) = {} THEN default_value
    ELSE w.reg[Kinds[First(FoundIn(w, key))]][key]

\* SpatialData._find_element, lines 1655-1666, as __getitem__ returns it
_find_element(w, key) ==
    IF FoundIn(w, key) = {} THEN [err |-> "KeyError", ret |-> DefaultValue]
    ELSE IF Cardinality(FoundIn(w, key)) > 1 THEN [err |-> "ValueError", ret |-> DefaultValue]
    ELSE [err |-> "ok", ret |-> w.reg[Kinds[First(FoundIn(w, key))]][key]]

\* SpatialData._validate_element_names_are_unique, lines 1627-1631
_validate_element_names_are_unique(w) ==
    IF \E n \in UNION {DOMAIN w.reg[k] : k \in KindSet} : Cardinality(FoundIn(w, n)) > 1
    THEN "ValueError" ELSE "ok"

\* SpatialData.__setitem__, lines 1795-1807: the registry of the value's schema
__setitem__(w, key, value) ==
    IF KindOfSchema(get_model(value)) \in KindSet
    THEN ElementsSetItem(w, KindOfSchema(get_model(value)), key, value)
    ELSE Raise(w, "TypeError")

-----------------------------------------------------------------------------
(* Tables and their annotation metadata *)

IsStr(dtype) == dtype = "str"

\* lines 199-207: the identifier dtype of the annotated element against the
\* dtype of the table's instance-key column
DtypeMismatchAlways(dtype, table_dtype) == dtype # table_dtype
DtypeMismatch(dtype, table_dtype) ==
    dtype # table_dtype /\ (IsStr(dtype) \/ IsStr(table_dtype))

\* lines 190-212, the loop over the regions of the table
RECURSIVE ValidateRegions(_, _, _, _)
ValidateRegions(w, table, region, warned) ==
    IF region = <<>> THEN [w |-> w, err |-> "ok", warned |-> warned]
    ELSE LET r == Head(region)
             element == get(w, r, DefaultValue)
         IN IF element = DefaultValue
            THEN ValidateRegions(w, table, Tail(region), Append(warned, r))
            ELSE IF get_model(element) = "TableModel"
            THEN [w |-> w, err |-> "AttributeError", warned |-> warned]
            ELSE IF DtypeMismatch(ElemDtype(element.id), table.dtypes[table.uns.instance_key])
            THEN [w |-> w, err |-> "TypeError", warned |-> warned]
            ELSE ValidateRegions(w, table, Tail(region), warned)

validate_table_absent_is_fatal(w, table) ==
    IF table.has_attrs
    THEN LET r == ValidateRegions(w, table, table.uns.region, <<>>)
         IN IF r.warned # <<>> THEN Raise(w, "ValueError") ELSE r
    ELSE Ok(w)

\* SpatialData.validate_table_in_spatialdata, lines 186-212
validate_table_in_spatialdata(w, table) ==
    IF table.has_attrs
    THEN ValidateRegions(w, table, table.uns.region, <<>>)
    ELSE Ok(w)

\* an argument left at its default None
NoneArg == "None"

HasColumn(table, c) == c \in DOMAIN table.obs

TableOk(table) == [table |-> table, err |-> "ok"]
TableRaise(table, e) == [table |-> table, err |-> e]

\* TableModel._validate_set_region_key: with no key given, the key of the
\* metadata must name a column of table.obs; a key given must name a column
\* and replaces the key of the metadata (docstring, lines 379-393)
_validate_set_region_key(table, region_key) ==
    IF region_key = NoneArg
    THEN IF table.has_attrs /\ HasColumn(table, table.uns.region_key)
         THEN TableOk(table)
         ELSE TableRaise(table, "ValueError(region_key)")
    ELSE IF ~HasColumn(table, region_key)
    THEN TableRaise(table, "ValueError(region_key)")
    ELSE TableOk(IF table.has_attrs THEN [table EXCEPT !.uns.region_key = region_key] ELSE table)

\* TableModel._validate_set_instance_key, the same for the instance key
_validate_set_instance_key(table, instance_key) ==
    IF instance_key = NoneArg
    THEN IF table.has_attrs /\ HasColumn(table, table.uns.instance_key)
         THEN TableOk(table)
         ELSE TableRaise(table, "ValueError(instance_key)")
    ELSE IF ~HasColumn(table, instance_key)
    THEN TableRaise(table, "ValueError(instance_key)")
    ELSE TableOk(IF table.has_attrs THEN [table EXCEPT !.uns.instance_key = instance_key] ELSE table)

\* check_target_region_column_symmetry: the values of the region-key column
\* are among the declared regions
check_target_region_column_symmetry(table, region_key, region) ==
    Range(table.obs[region_key]) \subseteq {region}

\* SpatialData._set_table_annotation_target, lines 354-362
_set_table_annotation_target(table, region, region_key, instance_key) ==
    LET r1 == _validate_set_region_key(table, region_key)
        r2 == _validate_set_instance_key(r1.table, instance_key)
        attrs == [region |-> <<region>>, region_key |-> region_key, instance_key |-> instance_key]
    IN IF r1.err # "ok" THEN r1
       ELSE IF r2.err # "ok" THEN r2
       ELSE IF ~check_target_region_column_symmetry(r2.table, region_key, region)
       THEN TableRaise(r2.table, "ValueError(symmetry)")
       ELSE TableOk([r2.table EXCEPT !.has_attrs = TRUE, !.uns = attrs])

_change_target_replacing_attrs(table, region, region_key, instance_key) ==
    LET table_region_key == IF region_key # NoneArg THEN region_key ELSE table.uns.region_key
        r1 == _validate_set_region_key(table, region_key)
        r2 == _validate_set_instance_key(r1.table, instance_key)
    IN IF r1.err # "ok" THEN r1
       ELSE IF r2.err # "ok" THEN r2
       ELSE IF ~check_target_region_column_symmetry(r2.table, table_region_key, region)
       THEN TableRaise(r2.table, "ValueError(symmetry)")
       ELSE TableOk([r2.table EXCEPT !.uns = [region |-> <<region>>,
                                               region_key |-> table.uns.region_key,
                                               instance_key |-> table.uns.instance_key]])

\* SpatialData._change_table_annotation_target, lines 395-401
_change_table_annotation_target(table, region, region_key, instance_key) ==
    LET table_region_key == IF region_key # NoneArg THEN region_key ELSE table.uns.region_key
        r1 == _validate_set_region_key(table, region_key)
        r2 == _validate_set_instance_key(r1.table, instance_key)
    IN IF r1.err # "ok" THEN r1
       ELSE IF r2.err # "ok" THEN r2
       ELSE IF ~check_target_region_column_symmetry(r2.table, table_region_key, region)
       THEN TableRaise(r2.table, "ValueError(symmetry)")
       ELSE TableOk([r2.table EXCEPT !.uns.region = <<region>>])

\* the names of _gen_elements(): the spatial elements, not the tables
ElementNames(w) == UNION {DOMAIN w.reg[k] : k \in SpatialKinds}

set_table_annotates_any_name(w, table_name, region, region_key, instance_key) ==
    IF table_name \notin DOMAIN w.reg["tables"] THEN Raise(w, "KeyError")
    ELSE IF region \notin AllHeld(w) THEN Raise(w, "ValueError(target)")
    ELSE LET table == w.reg["tables"][table_name]
             r == IF table.has_attrs
                  THEN _change_table_annotation_target(table, region, region_key, instance_key)
                  ELSE IF region_key # NoneArg /\ instance_key # NoneArg
                  THEN _set_table_annotation_target(table, region, region_key, instance_key)
                  ELSE TableRaise(table, "TypeError(keys)")
         IN [w |-> [w EXCEPT !.reg["tables"][table_name] = r.table], err |-> r.err, warned |-> <<>>]

\* SpatialData.set_table_annotates_spatialelement, lines 433-443
set_table_annotates_spatialelement(w, table_name, region, region_key, instance_key) ==
    IF table_name \notin DOMAIN w.reg["tables"] THEN Raise(w, "KeyError")
    ELSE IF region \notin ElementNames(w) THEN Raise(w, "ValueError(target)")
    ELSE LET table == w.reg["tables"][table_name]
             r == IF table.has_attrs
                  THEN _change_table_annotation_target(table, region, region_key, instance_key)
                  ELSE IF region_key # NoneArg /\ instance_key # NoneArg
                  THEN _set_table_annotation_target(table, region, region_key, instance_key)
                  ELSE TableRaise(table, "TypeError(keys)")
         IN [w |-> [w EXCEPT !.reg["tables"][table_name] = r.table], err |-> r.err, warned |-> <<>>]

Keys(items) == [i \in 1..Len(items) |-> items[i][1]]
HasDuplicates(s) == \E i, j \in 1..Len(s) : i < j /\ s[i] = s[j]

\* lines 159-162: each table is validated against the container, then inserted
RECURSIVE InitTables(_, _, _)
InitTables(w, items, warned) ==
    IF items = <<>> THEN [w |-> w, err |-> "ok", warned |-> warned]
    ELSE LET v == validate_table_in_spatialdata(w, Head(items)[2])
             r == ElementsSetItem(w, "tables", Head(items)[1], Head(items)[2])
         IN IF v.err # "ok"
            THEN [w |-> w, err |-> v.err, warned |-> warned \o v.warned]
            ELSE IF r.err # "ok"
            THEN [w |-> w, err |-> r.err, warned |-> warned \o v.warned]
            ELSE InitTables(r.w, Tail(items), warned \o v.warned)

\* SpatialData.__init__, lines 122-162; args holds the five dicts
__init__(args) ==
    IF HasDuplicates(Keys(args.images) \o Keys(args.labels) \o Keys(args.points) \o Keys(args.shapes))
    THEN Raise(EmptyWorld, "KeyError")
    ELSE LET r1 == InsertAll(EmptyWorld, "images", args.images)
             r2 == IF r1.err = "ok" THEN InsertAll(r1.w, "labels", args.labels) ELSE r1
             r3 == IF r2.err = "ok" THEN InsertAll(r2.w, "shapes", args.shapes) ELSE r2
             r4 == IF r3.err = "ok" THEN InsertAll(r3.w, "points", args.points) ELSE r3
         IN IF r4.err = "ok" THEN InitTables(r4.w, args.tables, <<>>) ELSE r4

\* the legacy SpatialData.table setter, lines 1255-1258
table_setter(w, table) ==
    IF "table" \in DOMAIN w.reg["tables"]
    THEN Raise(w, "ValueError")
    ELSE ElementsSetItem(w, "tables", "table", table)

-----------------------------------------------------------------------------
(* Coordinate systems: the keys of the elements' transformation ledgers *)

CSNames == {"global", "x", "y"}

\* a parsed element maps to "global" alone; a transformation is named after
\* the coordinate system it was first attached to
LedgerOn(S) == [n \in S |-> n]
DefaultLedgers == [e \in 1..MaxElems |-> LedgerOn({"global"})]

\* _gen_spatial_element_values, lines 1565-1567: the values of the four
\* spatial registries, an object registered under two names coming twice
SpatialEntries(w) == UNION {{<<k, n>> : n \in DOMAIN w.reg[k]} : k \in SpatialKinds}
SpatialIds(w) == {w.reg[p[1]][p[2]].id : p \in SpatialEntries(w)}
TimesYielded(w, e) == Cardinality({p \in SpatialEntries(w) : w.reg[p[1]][p[2]].id = e})

\* SpatialData.coordinate_systems, lines 1384-1391
coordinate_systems(w, led) == UNION {DOMAIN led[e] : e \in SpatialIds(w)}

\* lines 735-746, with new_names left at all the old names
RECURSIVE CheckAgainst(_, _, _)
CheckAgainst(old_names, new_names, items) ==
    IF items = <<>> THEN "ok"
    ELSE IF Head(items)[1] \notin old_names THEN "ValueError(unknown)"
    ELSE IF Head(items)[2] \in new_names THEN "ValueError(exists)"
    ELSE CheckAgainst(old_names, new_names \cup {Head(items)[2]}, Tail(items))

CheckAgainstAllNames(old_names, rename_dict) == CheckAgainst(old_names, old_names, rename_dict)

\* lines 735-746: the old names must exist, a new name must not be a name
\* that stays nor a new name met before
CheckRenameDict(old_names, rename_dict) ==
    CheckAgainst(old_names, old_names \ {rename_dict[i][1] : i \in 1..Len(rename_dict)}, rename_dict)

\* a ledger under renaming has keys <<name, suffix>>: suffix 0 is the bare
\* name, the i-th random suffix is i (random suffixes do not repeat and no
\* name ends in one)
Suffixed(led) == [k \in {<<n, 0>> : n \in DOMAIN led} |-> led[k[1]]]

\* lines 755-760: every old name the ledger holds moves to new + suffix
RECURSIVE MoveToSuffixed(_, _, _)
MoveToSuffixed(t, items, i) ==
    IF items = <<>> THEN t
    ELSE LET old == <<Head(items)[1], 0>>
             new == <<Head(items)[2], i>>
         IN IF old \in DOMAIN t
            THEN MoveToSuffixed([k \in (DOMAIN t \ {old}) \cup {new} |-> IF k = new THEN t[old] ELSE t[k]],
                                Tail(items), i + 1)
            ELSE MoveToSuffixed(t, Tail(items), i + 1)

\* lines 762-770: the suffixes are cut off; the dict is walked in insertion
\* order, the moved keys last, so of two keys with one name the later wins
StripSuffixes(t) ==
    [n \in {k[1] : k \in DOMAIN t} |->
        t[CHOOSE k \in DOMAIN t : k[1] = n /\ \A j \in DOMAIN t : j[1] = n => j[2] <= k[2]]]

\* lines 749-773, for one element as the generator yields it
RenameLedger(led, rename_dict) == StripSuffixes(MoveToSuffixed(Suffixed(led), rename_dict, 1))

RECURSIVE RenameTimes(_, _, _)
RenameTimes(led, rename_dict, n) ==
    IF n = 0 THEN led ELSE RenameTimes(RenameLedger(led, rename_dict), rename_dict, n - 1)

\* SpatialData.rename_coordinate_systems, lines 735-773
rename_coordinate_systems(w, led, rename_dict) ==
    LET e == CheckRenameDict(coordinate_systems(w, led), rename_dict)
    IN IF e # "ok" THEN [ledger |-> led, err |-> e]
       ELSE [ledger |-> [o \in DOMAIN led |-> RenameTimes(led[o], rename_dict, TimesYielded(w, o))],
             err |-> "ok"]

-----------------------------------------------------------------------------
(* Derived containers: filter_by_coordinate_system and subset *)

NRows(table) == Len(table.obs[CHOOSE c \in DOMAIN table.obs : TRUE])

\* the rows of a table whose region-key value is among the names to keep, in
\* their order; a table without metadata has no region key and keeps none
KeptRows(table, keep) ==
    IF table.has_attrs
    THEN SelectSeq([i \in 1..NRows(table) |-> i], LAMBDA i : table.obs[table.uns.region_key][i] \in keep)
    ELSE <<>>

TakeRows(table, rows) ==
    [table EXCEPT !.obs = [c \in DOMAIN table.obs |-> [j \in 1..Len(rows) |-> table.obs[c][rows[j]]]]]

\* relational_query._filter_table_by_element_names
_filter_table_by_element_names(table, element_names) == TakeRows(table, KeptRows(table, element_names))

\* the names of a dict of dicts {element_type: {name: element}}
NamesOf(elements_dict) == UNION {DOMAIN elements_dict[k] : k \in DOMAIN elements_dict}

\* relational_query._filter_table_by_elements
_filter_table_by_elements(table, elements_dict) == TakeRows(table, KeptRows(table, NamesOf(elements_dict)))

Restrict(d, S) == [n \in DOMAIN d \cap S |-> d[n]]

_filter_tables_keeping_all(w, names_tables_to_keep, filter_tables, by, include_orphan_tables, element_names, elements_dict) ==
    w.reg["tables"]

_filter_tables_keeping_empty(w, names_tables_to_keep, filter_tables, by, include_orphan_tables, element_names, elements_dict) ==
    IF filter_tables
    THEN LET tables == w.reg["tables"]
             Filtered(n) == IF (include_orphan_tables /\ ~tables[n].has_attrs) \/ n \in names_tables_to_keep
                            THEN tables[n]
                            ELSE IF by = "cs"
                            THEN _filter_table_by_element_names(tables[n], element_names)
                            ELSE _filter_table_by_elements(tables[n], elements_dict)
         IN [n \in DOMAIN tables |-> Filtered(n)]
    ELSE w.reg["tables"]

\* SpatialData._filter_tables, lines 690-717
_filter_tables(w, names_tables_to_keep, filter_tables, by, include_orphan_tables, element_names, elements_dict) ==
    IF filter_tables
    THEN LET tables == w.reg["tables"]
             Filtered(n) == IF (include_orphan_tables /\ ~tables[n].has_attrs) \/ n \in names_tables_to_keep
                            THEN tables[n]
                            ELSE IF by = "cs"
                            THEN _filter_table_by_element_names(tables[n], element_names)
                            ELSE _filter_table_by_elements(tables[n], elements_dict)
         IN [n \in {m \in DOMAIN tables :
                       \/ include_orphan_tables /\ ~tables[m].has_attrs
                       \/ m \in names_tables_to_keep
                       \/ NRows(Filtered(m)) # 0} |-> Filtered(n)]
    ELSE w.reg["tables"]

\* the items of a dict, in some order
Items(d) ==
    LET ks == CHOOSE q \in [1..Cardinality(DOMAIN d) -> DOMAIN d] : Range(q) = DOMAIN d
    IN [i \in 1..Cardinality(DOMAIN d) |-> <<ks[i], d[ks[i]]>>]

\* SpatialData(**elements, tables=tables)
NewSpatialData(elements, tables) ==
    __init__([images |-> Items(elements["images"]), labels |-> Items(elements["labels"]),
              points |-> Items(elements["points"]), shapes |-> Items(elements["shapes"]),
              tables |-> Items(tables)])

filter_by_all_coordinate_systems(w, led, coordinate_system, filter_tables, include_orphan_tables) ==
    LET InCS(k) == {n \in DOMAIN w.reg[k] : \A cs \in coordinate_system : cs \in DOMAIN led[w.reg[k][n].id]}
        elements == [k \in SpatialKinds |-> Restrict(w.reg[k], InCS(k))]
        tables == _filter_tables(w, {}, filter_tables, "cs", include_orphan_tables,
                                 NamesOf(elements), elements)
    IN NewSpatialData(elements, tables)

\* SpatialData.filter_by_coordinate_system, lines 635-653
filter_by_coordinate_system(w, led, coordinate_system, filter_tables, include_orphan_tables) ==
    LET InCS(k) == {n \in DOMAIN w.reg[k] : \E cs \in coordinate_system : cs \in DOMAIN led[w.reg[k][n].id]}
        elements == [k \in SpatialKinds |-> Restrict(w.reg[k], InCS(k))]
        element_names_in_coordinate_system == NamesOf(elements)
        tables == _filter_tables(w, {}, filter_tables, "cs", include_orphan_tables,
                                 element_names_in_coordinate_system, elements)
    IN NewSpatialData(elements, tables)

subset_filtering_by_names(w, element_names, filter_tables, include_orphan_tables) ==
    LET elements_dict == [k \in SpatialKinds |-> Restrict(w.reg[k], element_names)]
        names_tables_to_keep == DOMAIN w.reg["tables"] \cap element_names
        tables == _filter_tables(w, names_tables_to_keep, filter_tables, "cs", include_orphan_tables,
                                 element_names, elements_dict)
    IN NewSpatialData(elements_dict, tables)

\* SpatialData.subset, lines 1724-1739
subset(w, element_names, filter_tables, include_orphan_tables) ==
    LET elements_dict == [k \in SpatialKinds |-> Restrict(w.reg[k], element_names)]
        names_tables_to_keep == DOMAIN w.reg["tables"] \cap element_names
        tables == _filter_tables(w, names_tables_to_keep, filter_tables, "elements", include_orphan_tables,
                                 {}, elements_dict)
    IN NewSpatialData(elements_dict, tables)

-----------------------------------------------------------------------------
(* Transforming to a coordinate system *)

\* no call of a collaborator raises
NoFailure == ""

\* two coordinate systems are linked when an element of the container maps
\* to both
Linked(w, led, a, b) == \E g \in SpatialIds(w) : a \in DOMAIN led[g] /\ b \in DOMAIN led[g]

RECURSIVE LinkedFrom(_, _, _)
LinkedFrom(w, led, S) ==
    LET T == S \cup {b \in CSNames : \E a \in S : Linked(w, led, a, b)}
    IN IF T = S THEN S ELSE LinkedFrom(w, led, T)

\* the coordinate systems an element reaches through the transformations
\* of the container
ReachableFrom(w, led, element) == LinkedFrom(w, led, DOMAIN led[element.id])

\* transformations.operations.get_transformation_between_coordinate_systems:
\* the transformation of the element when it has one, a composition along a
\* path when there is one, and a raise when there is none
get_transformation_between_coordinate_systems(w, led, element, target_coordinate_system) ==
    IF target_coordinate_system \in DOMAIN led[element.id]
    THEN [t |-> led[element.id][target_coordinate_system], err |-> "ok"]
    ELSE IF target_coordinate_system \in ReachableFrom(w, led, element)
    THEN [t |-> "composed", err |-> "ok"]
    ELSE [t |-> "", err |-> "RuntimeError"]

\* spatialdata.transform(element, to_coordinate_system=..., maintain_positioning=False):
\* it needs the transformation of the element to the coordinate system and
\* gives a new element with one transformation; it may raise
transform_to(d, to_coordinate_system, raises) ==
    IF to_coordinate_system \notin DOMAIN d THEN [d |-> <<>>, err |-> "KeyError"]
    ELSE IF raises THEN [d |-> <<>>, err |-> "ValueError(transform)"]
    ELSE [d |-> (to_coordinate_system :> "identity"), err |-> "ok"]

\* spatialdata.transform(element, transformation=t, maintain_positioning=True):
\* a new element with the coordinate systems of the old one, each
\* transformation adjusted; it may raise
transform_by(d, t, raises) ==
    IF raises THEN [d |-> <<>>, err |-> "ValueError(transform)"]
    ELSE [d |-> [cs \in DOMAIN d |-> "adjusted"], err |-> "ok"]

TeResult(led, err, d) == [ledger |-> led, err |-> err, d |-> d]

transform_element_without_injection(w, led, element, target_coordinate_system, maintain_positioning, raises) ==
    LET t == get_transformation_between_coordinate_systems(w, led, element, target_coordinate_system)
        kept == transform_by(led[element.id], t.t, raises)
        moved == transform_to(led[element.id], target_coordinate_system, raises)
    IN IF t.err # "ok" THEN TeResult(led, t.err, <<>>)
       ELSE IF maintain_positioning
       THEN IF kept.err # "ok" THEN TeResult(led, kept.err, <<>>)
            ELSE IF target_coordinate_system \in DOMAIN kept.d
            THEN TeResult(led, "ok", [kept.d EXCEPT ![target_coordinate_system] = "simplified"])
            ELSE TeResult(led, "ok", kept.d)
       ELSE IF moved.err # "ok" THEN TeResult(led, moved.err, <<>>)
            ELSE IF Cardinality(DOMAIN moved.d) # 1 THEN TeResult(led, "AssertionError", <<>>)
            ELSE TeResult(led, "ok", (target_coordinate_system :> moved.d[CHOOSE cs \in DOMAIN moved.d : TRUE]))

\* SpatialData.transform_element_to_coordinate_system, lines 805-847: the
\* ledgers after the call, how it ended, the ledger of the new element
transform_element_to_coordinate_system(w, led, element, target_coordinate_system, maintain_positioning, raises) ==
    LET t == get_transformation_between_coordinate_systems(w, led, element, target_coordinate_system)
        kept == transform_by(led[element.id], t.t, raises)
        to_remove == target_coordinate_system \notin DOMAIN led[element.id]
        injected == IF to_remove
                    THEN [led EXCEPT ![element.id] = (target_coordinate_system :> t.t) @@ led[element.id]]
                    ELSE led
        moved == transform_to(injected[element.id], target_coordinate_system, raises)
        removed == IF to_remove
                   THEN [injected EXCEPT ![element.id] =
                            [cs \in DOMAIN injected[element.id] \ {target_coordinate_system} |->
                                injected[element.id][cs]]]
                   ELSE injected
    IN IF t.err # "ok" THEN TeResult(led, t.err, <<>>)
       ELSE IF maintain_positioning
       THEN IF kept.err # "ok" THEN TeResult(led, kept.err, <<>>)
            ELSE IF target_coordinate_system \in DOMAIN kept.d
            THEN TeResult(led, "ok", [kept.d EXCEPT ![target_coordinate_system] = "simplified"])
            ELSE TeResult(led, "ok", kept.d)
       ELSE IF moved.err # "ok" THEN TeResult(injected, moved.err, <<>>)
            ELSE IF Cardinality(DOMAIN moved.d) # 1 THEN TeResult(removed, "AssertionError", <<>>)
            ELSE TeResult(removed, "ok", (target_coordinate_system :> moved.d[CHOOSE cs \in DOMAIN moved.d : TRUE]))

\* lines 871-879: every element of the filtered container is transformed,
\* until one call raises; done maps kind and name to the ledger of the new element
RECURSIVE TransformAll(_, _, _, _, _, _, _)
TransformAll(w, led, todo, done, target_coordinate_system, maintain_positioning, raising) ==
    IF todo = {} THEN [ledger |-> led, err |-> "ok", done |-> done]
    ELSE LET p == CHOOSE q \in todo : TRUE
             r == transform_element_to_coordinate_system(w, led, w.reg[p[1]][p[2]], target_coordinate_system,
                                                         maintain_positioning, raising = p[2])
         IN IF r.err # "ok" THEN [ledger |-> r.ledger, err |-> r.err, done |-> done]
            ELSE TransformAll(w, r.ledger, todo \ {p}, (p :> r.d) @@ done, target_coordinate_system,
                              maintain_positioning, raising)

TcResult(led, r, done) == [ledger |-> led, w |-> r.w, err |-> r.err, warned |-> r.warned, done |-> done]

\* lines 871-880, on the filtered container sdata
TransformFiltered(sdata, led, target_coordinate_system, maintain_positioning, raising) ==
    LET r == TransformAll(sdata.w, led, SpatialEntries(sdata.w), <<>>, target_coordinate_system,
                          maintain_positioning, raising)
    IN IF sdata.err # "ok" THEN TcResult(led, sdata, <<>>)
       ELSE IF r.err # "ok" THEN TcResult(r.ledger, Raise(EmptyWorld, r.err), <<>>)
       ELSE TcResult(r.ledger, NewSpatialData([k \in SpatialKinds |-> sdata.w.reg[k]], sdata.w.reg["tables"]), r.done)

transform_to_coordinate_system_filtering_tables(w, led, target_coordinate_system, maintain_positioning, raising) ==
    CHOOSE res \in {TransformFiltered(sdata, led, target_coordinate_system, maintain_positioning, raising) :
                       sdata \in {filter_by_coordinate_system(w, led, {target_coordinate_system}, TRUE, FALSE)}} : TRUE

\* SpatialData.transform_to_coordinate_system, lines 849-880
transform_to_coordinate_system(w, led, target_coordinate_system, maintain_positioning, raising) ==
    CHOOSE res \in {TransformFiltered(sdata, led, target_coordinate_system, maintain_positioning, raising) :
                       sdata \in {filter_by_coordinate_system(w, led, {target_coordinate_system}, FALSE, FALSE)}} : TRUE

-----------------------------------------------------------------------------
(* The store on disk: the guard, the writers, the reader *)

\* a path is the sequence of its parts; the directory of the stores
Dir == <<"d">>
\* SpatialData.path of a container that is not backed: None
NoPath == <<>>
EmptyDisk == (Dir :> [zarr |-> FALSE, holds |-> DefaultValue, ledger |-> <<>>])
NoBacking == [e \in 1..MaxElems |-> {}]

\* what is at a path: a zarr group (the root of a store, the group of a kind,
\* the group of an element with what was written into it) or something else
GroupNode == [zarr |-> TRUE, holds |-> DefaultValue, ledger |-> <<>>]
ElementNode(element, transformations) == [zarr |-> TRUE, holds |-> element, ledger |-> transformations]
OtherNode == [zarr |-> FALSE, holds |-> DefaultValue, ledger |-> <<>>]

\* the store side of a container: its path, the disk, the backing files
Store == [path |-> path, disk |-> disk, backing |-> backing]

\* _io._utils._is_subfolder: child is parent or lies below it
_is_subfolder(parent, child) ==
    Len(parent) <= Len(child) /\ SubSeq(child, 1, Len(parent)) = parent

\* any(_io._utils._backed_elements_contained_in_path(path, object)): a file
\* backing an element of the container lies below path
_backed_elements_contained_in_path(w, st, file_path) ==
    \E e \in SpatialIds(w) : \E f \in st.backing[e] : _is_subfolder(file_path, f)

_validate_ignoring_backing_files(w, st, file_path, overwrite, saving_an_element) ==
    IF file_path \notin DOMAIN st.disk THEN "ok"
    ELSE IF ~st.disk[file_path].zarr THEN "ValueError(not-a-store)"
    ELSE IF ~overwrite THEN "ValueError(exists)"
    ELSE IF st.path # NoPath /\ (_is_subfolder(st.path, file_path) \/ _is_subfolder(file_path, st.path))
    THEN IF saving_an_element /\ _is_subfolder(st.path, file_path)
         THEN "ValueError(element)"
         ELSE "ValueError(overlap)"
    ELSE "ok"

_validate_ignoring_backing_path(w, st, file_path, overwrite, saving_an_element) ==
    IF file_path \notin DOMAIN st.disk THEN "ok"
    ELSE IF ~st.disk[file_path].zarr THEN "ValueError(not-a-store)"
    ELSE IF ~overwrite THEN "ValueError(exists)"
    ELSE IF _backed_elements_contained_in_path(w, st, file_path) THEN "ValueError(backing)"
    ELSE "ok"

_validate_overlap_first(w, st, file_path, overwrite, saving_an_element) ==
    IF file_path \notin DOMAIN st.disk THEN "ok"
    ELSE IF ~st.disk[file_path].zarr THEN "ValueError(not-a-store)"
    ELSE IF ~overwrite THEN "ValueError(exists)"
    ELSE IF st.path # NoPath /\ (_is_subfolder(st.path, file_path) \/ _is_subfolder(file_path, st.path))
    THEN IF saving_an_element /\ _is_subfolder(st.path, file_path)
         THEN "ValueError(element)"
         ELSE "ValueError(overlap)"
    ELSE IF _backed_elements_contained_in_path(w, st, file_path) THEN "ValueError(backing)"
    ELSE "ok"

\* SpatialData._validate_can_safely_write_to_path, lines 937-965
_validate_can_safely_write_to_path(w, st, file_path, overwrite, saving_an_element) ==
    IF file_path \notin DOMAIN st.disk THEN "ok"
    ELSE IF ~st.disk[file_path].zarr THEN "ValueError(not-a-store)"
    ELSE IF ~overwrite THEN "ValueError(exists)"
    ELSE IF _backed_elements_contained_in_path(w, st, file_path) THEN "ValueError(backing)"
    ELSE IF st.path # NoPath /\ (_is_subfolder(st.path, file_path) \/ _is_subfolder(file_path, st.path))
    THEN IF saving_an_element /\ _is_subfolder(st.path, file_path)
         THEN "ValueError(element)"
         ELSE "ValueError(overlap)"
    ELSE "ok"

\* the transformations written with an element; a table has none
LedgerOf(led, element) == IF get_model(element) = "TableModel" THEN <<>> ELSE led[element.id]

\* _get_groups_for_element and the writer of the kind, lines 1015-1031: the
\* group of the kind and the group of the element under the root of the store
WriteGroups(dsk, led, element, zarr_container_path, element_type, element_name) ==
    ((zarr_container_path \o <<element_type, element_name>>) :> ElementNode(element, LedgerOf(led, element)))
        @@ ((zarr_container_path \o <<element_type>>) :> GroupNode)
        @@ dsk

\* the writer of the kind raises after _get_groups_for_element has made the
\* groups, lines 1015-1031: the group of the element is there, with nothing in it
HalfWritten(dsk, zarr_container_path, element_type, element_name) ==
    ((zarr_container_path \o <<element_type, element_name>>) :> GroupNode)
        @@ ((zarr_container_path \o <<element_type>>) :> GroupNode)
        @@ dsk

_write_element_unguarded(w, led, st, element, zarr_container_path, element_type, element_name, overwrite, raising) ==
    IF raising = element_name
    THEN [disk |-> HalfWritten(st.disk, zarr_container_path, element_type, element_name), err |-> "IOError"]
    ELSE [disk |-> WriteGroups(st.disk, led, element, zarr_container_path, element_type, element_name), err |-> "ok"]

\* SpatialData._write_element, lines 1010-1031; raising names the element
\* whose writer raises
_write_element(w, led, st, element, zarr_container_path, element_type, element_name, overwrite, raising) ==
    LET file_path_of_element == zarr_container_path \o <<element_type, element_name>>
        e == _validate_can_safely_write_to_path(w, st, file_path_of_element, overwrite, TRUE)
    IN IF e # "ok" THEN [disk |-> st.disk, err |-> e]
       ELSE IF raising = element_name
       THEN [disk |-> HalfWritten(st.disk, zarr_container_path, element_type, element_name), err |-> "IOError"]
       ELSE [disk |-> WriteGroups(st.disk, led, element, zarr_container_path, element_type, element_name),
             err |-> "ok"]

\* gen_elements(): every element and table with its kind and name
AllEntries(w) == UNION {{<<k, n>> : n \in DOMAIN w.reg[k]} : k \in KindSet}

\* lines 981-988: every element is written, until one fails
RECURSIVE WriteAll(_, _, _, _, _, _)
WriteAll(w, led, st, file_path, todo, raising) ==
    IF todo = {} THEN [disk |-> st.disk, err |-> "ok"]
    ELSE LET p == CHOOSE q \in todo : TRUE
             r == _write_element(w, led, st, w.reg[p[1]][p[2]], file_path, p[1], p[2], FALSE, raising)
         IN IF r.err # "ok" THEN r
            ELSE WriteAll(w, led, [st EXCEPT !.disk = r.disk], file_path, todo \ {p}, raising)

\* zarr.group(store=store, overwrite=overwrite), lines 977-979: the root of
\* the store, with nothing below it
NewRoot(dsk, file_path) ==
    (file_path :> GroupNode) @@ [q \in {x \in DOMAIN dsk : ~_is_subfolder(file_path, x)} |-> dsk[q]]

write_root_before_guard(w, led, st, file_path, overwrite, raising) ==
    LET e == _validate_can_safely_write_to_path(w, st, file_path, overwrite, FALSE)
        r == WriteAll(w, led, [st EXCEPT !.disk = NewRoot(st.disk, file_path)], file_path, AllEntries(w), raising)
    IN IF e # "ok" THEN [disk |-> NewRoot(st.disk, file_path), path |-> st.path, err |-> e]
       ELSE IF r.err # "ok" THEN [disk |-> r.disk, path |-> st.path, err |-> r.err]
       ELSE [disk |-> r.disk, path |-> file_path, err |-> "ok"]

write_path_before_elements(w, led, st, file_path, overwrite, raising) ==
    LET e == _validate_can_safely_write_to_path(w, st, file_path, overwrite, FALSE)
        r == WriteAll(w, led, [st EXCEPT !.disk = NewRoot(st.disk, file_path)], file_path, AllEntries(w), raising)
    IN IF e # "ok" THEN [disk |-> st.disk, path |-> st.path, err |-> e]
       ELSE [disk |-> r.disk, path |-> file_path, err |-> r.err]

\* SpatialData.write, lines 973-993
write(w, led, st, file_path, overwrite, raising) ==
    LET e == _validate_can_safely_write_to_path(w, st, file_path, overwrite, FALSE)
        r == WriteAll(w, led, [st EXCEPT !.disk = NewRoot(st.disk, file_path)], file_path, AllEntries(w), raising)
    IN IF e # "ok" THEN [disk |-> st.disk, path |-> st.path, err |-> e]
       ELSE IF r.err # "ok" THEN [disk |-> r.disk, path |-> st.path, err |-> r.err]
       ELSE [disk |-> r.disk, path |-> file_path, err |-> "ok"]

\* SpatialData.write_element, lines 1046-1071
write_element(w, led, st, element_name, overwrite) ==
    IF _validate_element_names_are_unique(w) # "ok" THEN [disk |-> st.disk, err |-> "ValueError(unique)"]
    ELSE IF get(w, element_name, DefaultValue) = DefaultValue THEN [disk |-> st.disk, err |-> "ValueError(found)"]
    ELSE IF st.path = NoPath THEN [disk |-> st.disk, err |-> "ValueError(backed)"]
    ELSE _write_element(w, led, st, get(w, element_name, DefaultValue), st.path,
                        Kinds[First(FoundIn(w, element_name))], element_name, overwrite, NoFailure)

\* SpatialData.locate_element, lines 591-604: the kind/name pairs under
\* which the object is registered
locate_element(w, element) == {p \in SpatialEntries(w) : w.reg[p[1]][p[2]] = element}

\* SpatialData._group_for_element_exists, lines 570-575
_group_for_element_exists(dsk, zarr_path, element_type, element_name) ==
    /\ (zarr_path \o <<element_type>>) \in DOMAIN dsk
    /\ (zarr_path \o <<element_type, element_name>>) \in DOMAIN dsk

\* _io._utils.is_element_self_contained: every file backing the element
\* lies below the group of the element
is_element_self_contained(st, element, element_path) ==
    \A f \in st.backing[element.id] : _is_subfolder(element_path, f)

\* overwrite_coordinate_transformations_raster / _non_raster: the
\* transformations of the group are replaced, nothing else
OverwriteTransformations(dsk, element_path, transformations) ==
    [dsk EXCEPT ![element_path].ledger = transformations]

WtResult(dsk, err, warned) == [disk |-> dsk, err |-> err, warned |-> warned]

write_transformations_making_group(w, led, st, element_name) ==
    LET element == get(w, element_name, DefaultValue)
        located == locate_element(w, element)
        path_ == CHOOSE q \in located : TRUE
        element_zarr_path == st.path \o <<path_[1], path_[2]>>
    IN IF element = DefaultValue THEN WtResult(st.disk, "ValueError(found)", <<>>)
       ELSE IF st.path = NoPath THEN WtResult(st.disk, "ok", <<"UserWarning">>)
       ELSE IF Cardinality(located) # 1 THEN WtResult(st.disk, "ValueError(located)", <<>>)
       ELSE WtResult((element_zarr_path :> ElementNode(DefaultValue, led[element.id]))
                         @@ ((st.path \o <<path_[1]>>) :> GroupNode) @@ st.disk,
                     "ok", <<>>)

\* SpatialData.write_transformations of one element, lines 1098-1168
write_transformations(w, led, st, element_name) ==
    LET element == get(w, element_name, DefaultValue)
        located == locate_element(w, element)
        path_ == CHOOSE q \in located : TRUE
        element_zarr_path == st.path \o <<path_[1], path_[2]>>
    IN IF element = DefaultValue THEN WtResult(st.disk, "ValueError(found)", <<>>)
       ELSE IF st.path = NoPath THEN WtResult(st.disk, "ok", <<"UserWarning">>)
       ELSE IF Cardinality(located) # 1 THEN WtResult(st.disk, "ValueError(located)", <<>>)
       ELSE IF ~_group_for_element_exists(st.disk, st.path, path_[1], path_[2])
       THEN WtResult(st.disk, "ok", <<"UserWarning">>)
       ELSE WtResult(OverwriteTransformations(st.disk, element_zarr_path, led[element.id]), "ok",
                     IF is_element_self_contained(st, element, element_zarr_path) THEN <<>> ELSE <<"info">>)

\* what read_zarr finds in one group of a store, lines 87-139: a dict from
\* the names of the sub-groups to what was written there
ReadGroup(dsk, store, group) ==
    [n \in {q[Len(q)] : q \in {x \in DOMAIN dsk : Len(x) = Len(store) + 2 /\ x = store \o <<group, x[Len(x)]>>}} |->
        dsk[store \o <<group, n>>].holds]

\* lines 141-164: the tables of the group "table", each read into the one
\* variable table
NoneTable == [model |-> "None"]
ReadTable(dsk, store) ==
    IF DOMAIN ReadGroup(dsk, store, "table") = {} THEN NoneTable
    ELSE ReadGroup(dsk, store, "table")[CHOOSE n \in DOMAIN ReadGroup(dsk, store, "table") : TRUE]

\* the transformations read_zarr finds with the elements it reads
ReadCoordinateSystems(dsk, store) ==
    UNION {DOMAIN dsk[x].ledger :
              x \in {q \in DOMAIN dsk : \E k \in SpatialKinds : Len(q) = Len(store) + 2 /\ _is_subfolder(store \o <<k>>, q)}}

\* _utils.deprecation_alias(table="tables"), line 113: the keyword table is
\* passed on as tables, with a warning
deprecation_alias(kwargs) ==
    IF "table" \notin DOMAIN kwargs THEN [kwargs |-> kwargs, warned |-> <<>>]
    ELSE [kwargs |-> [k \in (DOMAIN kwargs \ {"table"}) \cup {"tables"} |->
                         IF k = "tables" THEN kwargs["table"] ELSE kwargs[k]],
          warned |-> <<"DeprecationWarning">>]

\* SpatialData(**kwargs), lines 113-133: tables=None is no table, and one
\* table that is no dict is the dict {"table": tables}
SpatialDataKw(kwargs) ==
    LET kw == deprecation_alias(kwargs).kwargs
        r == __init__([images |-> Items(kw["images"]), labels |-> Items(kw["labels"]),
                       points |-> Items(kw["points"]), shapes |-> Items(kw["shapes"]),
                       tables |-> IF kw["tables"] = NoneTable THEN <<>> ELSE <<<<"table", kw["tables"]>>>>])
    IN [r EXCEPT !.warned = deprecation_alias(kwargs).warned \o r.warned]

\* io_zarr.read_zarr, lines 73-174
read_zarr(dsk, store) ==
    IF store \notin DOMAIN dsk \/ ~dsk[store].zarr THEN Raise(EmptyWorld, "PathNotFoundError")
    ELSE IF \E k \in SpatialKinds : \E n \in DOMAIN ReadGroup(dsk, store, k) : ReadGroup(dsk, store, k)[n] = DefaultValue
    THEN Raise(EmptyWorld, "ReadError")
    ELSE SpatialDataKw([images |-> ReadGroup(dsk, store, "images"),
                        labels |-> ReadGroup(dsk, store, "labels"),
                        points |-> ReadGroup(dsk, store, "points"),
                        shapes |-> ReadGroup(dsk, store, "shapes"),
                        table |-> ReadTable(dsk, store)])

-----------------------------------------------------------------------------
(* The calls, as actions *)

Call(op, kind, key, arg, err, warned, ret) ==
    [op |-> op, kind |-> kind, key |-> key, arg |-> arg, err |-> err, warned |-> warned, ret |-> ret]

NoCall == Call("none", "", "", DefaultValue, "ok", <<>>, DefaultValue)

UnchangedRegistries == UNCHANGED <<reg, keyref, keysets, shared_keys>>
UnchangedStore == UNCHANGED <<path, disk, backing, written>>
UnchangedWorld == UnchangedRegistries /\ UNCHANGED ledger /\ UnchangedStore

\* sdata = SpatialData(images=..., ..., tables=...): the first call of a run
Construct(args) ==
    LET r == __init__(args)
    IN /\ last.op = "none"
       /\ IF r.err = "ok" THEN Install(r.w) ELSE UnchangedWorld
       /\ last' = Call("init", "", "", args, r.err, r.warned, DefaultValue)

\* sdata[key] = value
SetItem(key, value) ==
    LET r == __setitem__(World, key, value)
    IN /\ Install(r.w)
       /\ last' = Call("setitem", KindOfSchema(get_model(value)), key, DefaultValue, r.err, <<>>, DefaultValue)

\* del sdata.<kind>[key]
DelItem(kind, key) ==
    LET r == ElementsDelItem(World, kind, key)
    IN /\ Install(r.w)
       /\ last' = Call("delitem", kind, key, DefaultValue, r.err, <<>>, DefaultValue)

\* sdata.<kind> = items
Setter(kind, items) ==
    LET r == CASE kind = "images" -> images_setter(World, items)
               [] kind = "labels" -> labels_setter(World, items)
               [] kind = "points" -> points_setter(World, items)
               [] kind = "shapes" -> shapes_setter(World, items)
               [] OTHER -> tables_setter(World, items)
    IN /\ {World.keyref[k] : k \in KindSet \ {kind}} # ObjIds
       /\ Install(r.w)
       /\ last' = Call("setter", kind, "", DefaultValue, r.err, <<>>, DefaultValue)

\* sdata.table = table
TableSetter(table) ==
    LET r == table_setter(World, table)
    IN /\ Install(r.w)
       /\ last' = Call("table_setter", "tables", "table", DefaultValue, r.err, <<>>, DefaultValue)

\* sdata.get(key, default_value)
Get(key) ==
    /\ UnchangedWorld
    /\ last' = Call("get", "", key, DefaultValue, "ok", <<>>, get(World, key, DefaultValue))

\* sdata[key]
GetItem(key) ==
    LET r == _find_element(World, key)
    IN /\ UnchangedWorld
       /\ last' = Call("getitem", "", key, DefaultValue, r.err, <<>>, r.ret)

\* sdata.validate_table_in_spatialdata(table)
Validate(table) ==
    LET r == validate_table_in_spatialdata(World, table)
    IN /\ UnchangedWorld
       /\ last' = Call("validate", "", "", table, r.err, r.warned, DefaultValue)

\* sdata.set_table_annotates_spatialelement(table_name, region, region_key, instance_key)
Bind(table_name, region, region_key, instance_key) ==
    LET r == set_table_annotates_spatialelement(World, table_name, region, region_key, instance_key)
    IN /\ Install(r.w)
       /\ last' = Call("bind", "tables", table_name,
                       [region |-> region, region_key |-> region_key, instance_key |-> instance_key],
                       r.err, <<>>, DefaultValue)

\* sdata.rename_coordinate_systems(rename_dict), the call after construction
Rename(rename_dict) ==
    LET r == rename_coordinate_systems(World, ledger, rename_dict)
    IN /\ last.op = "init"
       /\ UnchangedRegistries
       /\ UnchangedStore
       /\ ledger' = r.ledger
       /\ last' = Call("rename", "", "", rename_dict, r.err, <<>>, DefaultValue)

\* sdata.coordinate_systems
CoordinateSystems ==
    /\ last.op = "init"
    /\ UnchangedWorld
    /\ last' = Call("coordinate_systems", "", "", DefaultValue, "ok", <<>>, coordinate_systems(World, ledger))

\* sdata.transform_element_to_coordinate_system(sdata[name], target_coordinate_system,
\* maintain_positioning), while transform raises or not
TransformElement(name, target_coordinate_system, maintain_positioning, raises) ==
    LET r == transform_element_to_coordinate_system(World, ledger, get(World, name, DefaultValue),
                                                    target_coordinate_system, maintain_positioning, raises)
    IN /\ last.op = "init"
       /\ \E k \in SpatialKinds : name \in DOMAIN reg[k]
       /\ UnchangedRegistries
       /\ UnchangedStore
       /\ ledger' = r.ledger
       /\ last' = Call("transform_element", "", name,
                       [target_coordinate_system |-> target_coordinate_system,
                        maintain_positioning |-> maintain_positioning, raises |-> raises],
                       r.err, <<>>, r.d)

\* sdata.transform_to_coordinate_system(target_coordinate_system, maintain_positioning),
\* while transform of the element named raising, if any, raises
TransformToCoordinateSystem(target_coordinate_system, maintain_positioning, raising) ==
    LET r == transform_to_coordinate_system(World, ledger, target_coordinate_system, maintain_positioning, raising)
    IN /\ last.op = "init"
       /\ UnchangedRegistries
       /\ UnchangedStore
       /\ ledger' = r.ledger
       /\ last' = Call("transform_to_coordinate_system", "", "",
                       [target_coordinate_system |-> target_coordinate_system,
                        maintain_positioning |-> maintain_positioning, raising |-> raising],
                       r.err, r.warned, [reg |-> r.w.reg, transformations |-> r.done])

\* sdata.filter_by_coordinate_system(coordinate_system, filter_tables, include_orphan_tables)
FilterByCoordinateSystem(coordinate_system, filter_tables, include_orphan_tables) ==
    LET r == filter_by_coordinate_system(World, ledger, coordinate_system, filter_tables, include_orphan_tables)
    IN /\ last.op = "init"
       /\ UnchangedWorld
       /\ last' = Call("filter_by_coordinate_system", "", "",
                       [names |-> coordinate_system, filter_tables |-> filter_tables,
                        include_orphan_tables |-> include_orphan_tables],
                       r.err, r.warned, r.w.reg)

\* sdata.subset(element_names, filter_tables, include_orphan_tables)
Subset(element_names, filter_tables, include_orphan_tables) ==
    LET r == subset(World, element_names, filter_tables, include_orphan_tables)
    IN /\ last.op = "init"
       /\ UnchangedWorld
       /\ last' = Call("subset", "", "",
                       [names |-> element_names, filter_tables |-> filter_tables,
                        include_orphan_tables |-> include_orphan_tables],
                       r.err, r.warned, r.w.reg)

\* sdata.path = value, a store that exists
SetPath(value) ==
    /\ last.op # "none"
    /\ value \in DOMAIN disk
    /\ disk[value].zarr
    /\ path' = value
    /\ UnchangedRegistries
    /\ UNCHANGED <<ledger, disk, backing, written>>
    /\ last' = Call("set_path", "", "", value, "ok", <<>>, DefaultValue)

\* sdata._validate_can_safely_write_to_path(file_path, overwrite, saving_an_element)
ValidateCanSafelyWrite(file_path, overwrite, saving_an_element) ==
    /\ last.op \notin {"none", "validate_write", "read_zarr"}
    /\ UnchangedWorld
    /\ last' = Call("validate_write", "", "",
                    [file_path |-> file_path, overwrite |-> overwrite, saving_an_element |-> saving_an_element],
                    _validate_can_safely_write_to_path(World, Store, file_path, overwrite, saving_an_element),
                    <<>>, DefaultValue)

\* sdata.write(file_path, overwrite), while the writer of the element
\* named raising, if any, raises
Write(file_path, overwrite, raising) ==
    LET r == write(World, ledger, Store, file_path, overwrite, raising)
    IN /\ last.op # "none"
       /\ disk' = r.disk
       /\ path' = r.path
       /\ written' = IF r.err = "ok" THEN written \cup {file_path} ELSE written
       /\ UnchangedRegistries
       /\ UNCHANGED <<ledger, backing>>
       /\ last' = Call("write", "", "", [file_path |-> file_path, overwrite |-> overwrite, raising |-> raising],
                       r.err, <<>>, DefaultValue)

\* sdata.write_element(element_name, overwrite)
WriteElement(element_name, overwrite) ==
    LET r == write_element(World, ledger, Store, element_name, overwrite)
    IN /\ last.op # "none"
       /\ disk' = r.disk
       /\ UnchangedRegistries
       /\ UNCHANGED <<ledger, path, backing, written>>
       /\ last' = Call("write_element", "", element_name, [overwrite |-> overwrite],
                       r.err, <<>>, DefaultValue)

\* sdata.write_transformations(element_name)
WriteTransformations(element_name) ==
    LET r == write_transformations(World, ledger, Store, element_name)
    IN /\ last.op # "none"
       /\ disk' = r.disk
       /\ UnchangedRegistries
       /\ UNCHANGED <<ledger, path, backing, written>>
       /\ last' = Call("write_transformations", "", element_name, DefaultValue, r.err, r.warned, DefaultValue)

\* read_zarr(store)
ReadZarr(store) ==
    LET r == read_zarr(disk, store)
    IN /\ last.op \notin {"none", "validate_write", "read_zarr"}
       /\ UnchangedWorld
       /\ last' = Call("read_zarr", "", "", store, r.err, r.warned,
                       [reg |-> r.w.reg, coordinate_systems |-> ReadCoordinateSystems(disk, store)])

Init ==
    /\ reg = EmptyWorld.reg
    /\ keyref = EmptyWorld.keyref
    /\ keysets = EmptyWorld.keysets
    /\ shared_keys = EmptyWorld.shared_keys
    /\ ledger = DefaultLedgers
    /\ path = NoPath
    /\ disk = EmptyDisk
    /\ backing = NoBacking
    /\ written = {}
    /\ last = NoCall

-----------------------------------------------------------------------------
(* The registry under every call that inserts, removes or looks up *)

Dicts(K, V) ==
    {s \in UNION {[1..n -> K \X V] : n \in 0..MaxDict} :
        \A i, j \in 1..Len(s) : i < j => s[i][1] # s[j][1]}

PlainTable == Table(FALSE, NoAttrs, [region |-> <<"a">>, instance_id |-> <<1>>],
                    [region |-> "str", instance_id |-> "int64"])

RegValues == Elems \cup {PlainTable}
ValuesOf(kind) == {v \in RegValues : KindOfSchema(get_model(v)) = kind}

InitArgs(I, L, P, S, T) ==
    {a \in [images : I, labels : L, points : P, shapes : S, tables : T] :
        Len(a.images) + Len(a.labels) + Len(a.points) + Len(a.shapes) + Len(a.tables) <= MaxInit}

RegInitArgs ==
    InitArgs(Dicts(Names, ValuesOf("images")), Dicts(Names, ValuesOf("labels")),
             Dicts(Names, ValuesOf("points")), Dicts(Names, ValuesOf("shapes")),
             Dicts(Names, ValuesOf("tables")))

RegDicts == [k \in KindSet |-> Dicts(Names, ValuesOf(k))]

NextInsert ==
    \/ \E a \in RegInitArgs : Construct(a)
    \/ \E n \in Names, v \in RegValues : SetItem(n, v)
    \/ \E k \in KindSet, n \in Names : DelItem(k, n)
    \/ \E n \in Names : Get(n)
    \/ \E n \in Names : GetItem(n)

NextRegistry ==
    \/ NextInsert
    \/ \E k \in KindSet : \E items \in RegDicts[k] : Setter(k, items)

SpecInsert == Init /\ [][NextInsert]_vars
SpecRegistry == Init /\ [][NextRegistry]_vars

-----------------------------------------------------------------------------
(* Tables entering a container that holds their targets, or does not *)

TableNames == {"table"}
InstanceDtypes == {"str", "int64"}

RegionLists ==
    {s \in UNION {[1..n -> Names] : n \in 1..MaxRegions} :
        \A i, j \in 1..Len(s) : i < j => s[i] # s[j]}

\* a table annotating the regions of a list, one row per region
AnnotatingTable(region, dtype) ==
    Table(TRUE, [region |-> region, region_key |-> "region", instance_key |-> "instance_id"],
          [region |-> region, instance_id |-> [i \in 1..Len(region) |-> i]],
          [region |-> "str", instance_id |-> dtype])

ValTables == {AnnotatingTable(r, d) : r \in RegionLists, d \in InstanceDtypes} \cup {PlainTable}

ValInitArgs ==
    InitArgs(Dicts(Names, ValuesOf("images")), Dicts(Names, ValuesOf("labels")),
             Dicts(Names, ValuesOf("points")), Dicts(Names, ValuesOf("shapes")),
             Dicts(TableNames, ValTables))

ValTableDicts == Dicts(TableNames, ValTables)

NextValidate ==
    \/ \E a \in ValInitArgs : Construct(a)
    \/ \E n \in TableNames, t \in ValTables : SetItem(n, t)
    \/ \E items \in ValTableDicts : Setter("tables", items)
    \/ \E t \in ValTables : TableSetter(t)
    \/ \E n \in TableNames : DelItem("tables", n)
    \/ \E t \in ValTables : Validate(t)

SpecValidate == Init /\ [][NextValidate]_vars

-----------------------------------------------------------------------------
(* Binding a table of the container to an annotation target *)

OtherName(n) == CHOOSE m \in Names : m # n

RowLists == UNION {[1..n -> Names] : n \in 1..MaxRows}

BindObs(rows) ==
    [region |-> rows,
     region2 |-> [i \in 1..Len(rows) |-> OtherName(rows[i])],
     instance_id |-> [i \in 1..Len(rows) |-> i],
     cell_id |-> [i \in 1..Len(rows) |-> i]]

BindDtypes == [region |-> "str", region2 |-> "str", instance_id |-> "int64", cell_id |-> "str"]

\* the tables a parser hands out: every value of the region-key column is a
\* declared region
BindTables ==
    {Table(FALSE, NoAttrs, BindObs(rows), BindDtypes) : rows \in RowLists}
    \cup
    {t \in {Table(TRUE, [region |-> r, region_key |-> rk, instance_key |-> "instance_id"],
                  BindObs(rows), BindDtypes) :
                rows \in RowLists, r \in RegionLists, rk \in {"region", "region2"}} :
        Range(t.obs[t.uns.region_key]) \subseteq Range(t.uns.region)}

BindInitArgs ==
    InitArgs({<<>>}, Dicts({"a"}, ValuesOf("labels")), {<<>>}, Dicts({"b"}, ValuesOf("shapes")),
             Dicts(TableNames, BindTables))

RegionKeyArgs == {NoneArg, "region", "region2", "missing"}
InstanceKeyArgs == {NoneArg, "instance_id", "cell_id", "missing"}

NextBind ==
    \/ \E a \in BindInitArgs : Construct(a)
    \/ \E t \in TableNames, r \in Names \cup TableNames, rk \in RegionKeyArgs, ik \in InstanceKeyArgs :
          Bind(t, r, rk, ik)

SpecBind == Init /\ [][NextBind]_vars

-----------------------------------------------------------------------------
(* Renaming the coordinate systems of a container *)

\* the elements whose ledgers the callers set up before the container is built
LedgerElems == {1, 2}
LedgerPool == {LedgerOn(S) : S \in SUBSET CSNames}

InitLedgers ==
    /\ reg = EmptyWorld.reg
    /\ keyref = EmptyWorld.keyref
    /\ keysets = EmptyWorld.keysets
    /\ shared_keys = EmptyWorld.shared_keys
    /\ last = NoCall
    /\ path = NoPath
    /\ disk = EmptyDisk
    /\ backing = NoBacking
    /\ written = {}
    /\ ledger \in {l \in [1..MaxElems -> LedgerPool] :
                      \A e \in (1..MaxElems) \ LedgerElems : l[e] = DefaultLedgers[e]}

RenameInitArgs ==
    InitArgs({<<>>}, Dicts(Names, ValuesOf("labels")), {<<>>}, Dicts(Names, ValuesOf("shapes")), {<<>>})

RenameDicts ==
    {s \in UNION {[1..n -> CSNames \X CSNames] : n \in 0..MaxRename} :
        \A i, j \in 1..Len(s) : i < j => s[i][1] # s[j][1]}

NextRename ==
    \/ \E a \in RenameInitArgs : Construct(a)
    \/ \E d \in RenameDicts : Rename(d)
    \/ CoordinateSystems

SpecRename == InitLedgers /\ [][NextRename]_vars

-----------------------------------------------------------------------------
(* Containers derived from a container of elements and tables *)

QueryLedgerElems == {1, 3}
QueryLedgerPool == {LedgerOn(S) : S \in (SUBSET {"global", "x"}) \ {{}}}

InitQuery ==
    /\ reg = EmptyWorld.reg
    /\ keyref = EmptyWorld.keyref
    /\ keysets = EmptyWorld.keysets
    /\ shared_keys = EmptyWorld.shared_keys
    /\ last = NoCall
    /\ path = NoPath
    /\ disk = EmptyDisk
    /\ backing = NoBacking
    /\ written = {}
    /\ ledger \in {l \in [1..MaxElems -> QueryLedgerPool \cup {DefaultLedgers[1]}] :
                      /\ \A e \in (1..MaxElems) \ QueryLedgerElems : l[e] = DefaultLedgers[e]
                      /\ \A e \in QueryLedgerElems : l[e] \in QueryLedgerPool}

QueryTableNames == {"table", "t2"}

\* a table whose rows annotate the regions of a list, in that order
AnnotatingRows(rows) ==
    Table(TRUE, [region |-> <<"a", "b">>, region_key |-> "region", instance_key |-> "instance_id"],
          [region |-> rows, instance_id |-> [i \in 1..Len(rows) |-> i]],
          [region |-> "str", instance_id |-> "int64"])

QueryTables == {AnnotatingRows(rows) : rows \in RowLists} \cup {PlainTable}

QueryTableDicts ==
    {<<>>} \cup {<<<<"table", t>>>> : t \in QueryTables}
           \cup {<<<<"table", t>>, <<"t2", u>>>> : t \in QueryTables, u \in {PlainTable, AnnotatingRows(<<"b">>)}}

QueryInitArgs ==
    InitArgs({<<>>}, Dicts({"a"}, ValuesOf("labels")), Dicts({"b"}, ValuesOf("points")), {<<>>},
             QueryTableDicts)

NextQuery ==
    \/ \E a \in QueryInitArgs : Construct(a)
    \/ \E cs \in (SUBSET CSNames) \ {{}}, ft \in BOOLEAN, io \in BOOLEAN : FilterByCoordinateSystem(cs, ft, io)
    \/ \E names \in SUBSET (Names \cup QueryTableNames), ft \in BOOLEAN, io \in BOOLEAN : Subset(names, ft, io)

SpecQuery == InitQuery /\ [][NextQuery]_vars

-----------------------------------------------------------------------------
(* Transforming elements and containers *)

NextTransform ==
    \/ \E a \in QueryInitArgs : Construct(a)
    \/ \E n \in Names, cs \in CSNames, mp \in BOOLEAN, raises \in BOOLEAN : TransformElement(n, cs, mp, raises)
    \/ \E cs \in CSNames, mp \in BOOLEAN, raising \in {NoFailure, "a"} : TransformToCoordinateSystem(cs, mp, raising)

SpecTransform == InitQuery /\ [][NextTransform]_vars

-----------------------------------------------------------------------------
(* Writing a container to stores and reading them *)

StoreS == Dir \o <<"s">>
StoreT == Dir \o <<"t">>
StorePaths == {Dir, StoreS, StoreT}

\* the element whose data may be lazy, and the file backing it in a store
\* it was written to before
BackedElem == 1
BackingFile(store) == store \o <<"labels", "lab", "0">>

\* a store in which the element was written, when it had other transformations
StoreHolding(store) ==
    ((store \o <<"labels", "lab">>) :> ElementNode(Elem(BackedElem), LedgerOn({"x"})))
        @@ ((store \o <<"labels">>) :> GroupNode)
        @@ (store :> GroupNode)

\* what is at Dir and at StoreS before the first call: nothing, an empty
\* store, something that is no store
Disks ==
    {d @@ s : d \in {(Dir :> GroupNode), (Dir :> OtherNode)},
              s \in {<<>>, (StoreS :> GroupNode), (StoreS :> OtherNode)}}

InitStore ==
    /\ reg = EmptyWorld.reg
    /\ keyref = EmptyWorld.keyref
    /\ keysets = EmptyWorld.keysets
    /\ shared_keys = EmptyWorld.shared_keys
    /\ ledger = DefaultLedgers
    /\ path = NoPath
    /\ written = {}
    /\ last = NoCall
    /\ \/ disk \in Disks /\ backing = NoBacking
       \/ \E store \in {StoreS, StoreT}, dsk \in Disks :
             /\ disk = StoreHolding(store) @@ dsk
             /\ backing = [NoBacking EXCEPT ![BackedElem] = {BackingFile(store)}]

\* the containers: one element, one of each kind
StoreContents ==
    [images |-> <<<<"img", Elem(4)>>>>, labels |-> <<<<"lab", Elem(1)>>>>, points |-> <<<<"pts", Elem(3)>>>>,
     shapes |-> <<<<"shp", Elem(2)>>>>, tables |-> <<<<"table", PlainTable>>>>]
StoreArgs(K) == [k \in KindSet |-> IF k \in K THEN StoreContents[k] ELSE <<>>]
StoreInitArgs == {StoreArgs(K) : K \in {{"labels"}, KindSet}}
StoreNames == {"lab", "shp"}

TargetPaths == {Dir, StoreS, StoreS \o <<"labels", "lab">>}

NextStore ==
    \/ \E a \in StoreInitArgs : Construct(a)
    \/ \E p \in {StoreS, StoreT} : SetPath(p)
    \/ \E p \in TargetPaths, ow \in BOOLEAN, el \in BOOLEAN : ValidateCanSafelyWrite(p, ow, el)
    \/ \E p \in {StoreS, StoreT}, ow \in BOOLEAN, raising \in {NoFailure, "lab"} : Write(p, ow, raising)
    \/ \E n \in StoreNames, ow \in BOOLEAN : WriteElement(n, ow)
    \/ \E n \in {"lab", "table"} : WriteTransformations(n)
    \/ ReadZarr(StoreS)

SpecStore == InitStore /\ [][NextStore]_vars

-----------------------------------------------------------------------------
(* Properties of the registry *)

HeldElsewhere(w, kind, key) == \E k \in KindSet \ {kind} : key \in DOMAIN w.reg[k]

\* C1: in every reachable state, after any sequence of insertions, removals
\* and bulk re-assignments, no name is held by more than one of the five
\* registries.
C1_NoNameInTwoRegistries ==
    \A n \in Names : Cardinality(FoundIn(World, n)) <= 1

\* C2: over insertions (the constructor, item assignment) and removals, no
\* name is ever held twice, and an item assignment of a name that another
\* kind holds ends in the name-collision error (KeyError) with the five
\* registries, the set objects and the references to them as they were.
C2_CollidingInsertRejected ==
    /\ [](\A n \in Names : Cardinality(FoundIn(World, n)) <= 1)
    /\ [][(last'.op = "setitem" /\ HeldElsewhere(World, last'.kind, last'.key))
            => (last'.err = "KeyError" /\ UnchangedWorld)]_vars

C2_Witness ==
    /\ last.op = "setitem"
    /\ last.kind = "tables"
    /\ last.err = "KeyError"
    /\ \E k \in SpatialKinds : last.key \in DOMAIN reg[k]

\* C3: after a bulk re-assignment of one kind, the set each of the five
\* registries consults on insertion is the union of the names the five
\* registries hold, and the other four registries are as before.
C3_SetterKeepsOneNameSet ==
    [][(last'.op = "setter" /\ last'.err = "ok")
        => /\ \A k \in KindSet : keysets'[keyref'[k]] = UNION {DOMAIN reg'[j] : j \in KindSet}
           /\ \A k \in KindSet \ {last'.kind} : reg'[k] = reg[k]]_vars

\* C4: get(name, default) returns the value registered under name, the
\* default when no kind holds the name, and reports a multiple-match error
\* when more than one kind holds it.
C4_GetReportsMultipleMatches ==
    last.op = "get" =>
        IF FoundIn(World, last.key) = {} THEN last.err = "ok" /\ last.ret = DefaultValue
        ELSE IF Cardinality(FoundIn(World, last.key)) > 1 THEN last.err = "ValueError"
        ELSE last.err = "ok" /\ last.ret \in {reg[k][last.key] : k \in {j \in KindSet : last.key \in DOMAIN reg[j]}}

-----------------------------------------------------------------------------
(* Properties of tables entering the container *)

InstanceDtype(table) == table.dtypes[table.uns.instance_key]

\* exactly one of the two dtypes is textual
OneTextual(d1, d2) == (d1 = "str") # (d2 = "str")

\* the regions of a table that name a spatial element of the container
\* whose identifier dtype is textual when the instance key is not, or the
\* other way round
ClashingRegions(w, table) ==
    {i \in 1..Len(table.uns.region) :
        \E k \in SpatialKinds :
            /\ table.uns.region[i] \in DOMAIN w.reg[k]
            /\ OneTextual(ElemDtype(w.reg[k][table.uns.region[i]].id), InstanceDtype(table))}

AbsentRegions(w, table) ==
    SelectSeq(table.uns.region, LAMBDA r : r \notin AllHeld(w))

\* C5: whatever path inserted it (constructor, item assignment, tables
\* setter, legacy table setter), no table of the tables registry has a
\* textual instance key while a target element it names in the container has
\* non-textual identifiers, or the other way round.
C5_NoClashingTableRegistered ==
    (last.op \in {"init", "setitem", "setter", "table_setter"} /\ last.err = "ok")
        => \A n \in DOMAIN reg["tables"] :
              reg["tables"][n].has_attrs => ClashingRegions(World, reg["tables"][n]) = {}

C7_AbsentRegionOnlyWarns ==
    /\ (last.op = "validate" /\ last.arg.has_attrs) =>
          /\ last.err # "ok" => ClashingRegions(World, last.arg) # {}
          /\ last.err = "ok" => last.warned = AbsentRegions(World, last.arg)
    /\ (last.op = "init" /\ last.err = "ok") =>
          \A i \in 1..Len(last.arg.tables) :
              LET t == last.arg.tables[i][2]
              IN /\ last.arg.tables[i][1] \in DOMAIN reg["tables"]
                 /\ reg["tables"][last.arg.tables[i][1]] = t
                 /\ t.has_attrs => last.warned = AbsentRegions(World, t)
    /\ (last.op = "init" /\ last.err # "ok") =>
          \/ HasDuplicates(Keys(last.arg.images) \o Keys(last.arg.labels)
                           \o Keys(last.arg.points) \o Keys(last.arg.shapes))
          \/ \E i \in 1..Len(last.arg.tables) :
                /\ last.arg.tables[i][2].has_attrs
                /\ ClashingRegions(__init__([last.arg EXCEPT !.tables = <<>>]).w, last.arg.tables[i][2]) # {}

C7_Witness ==
    /\ last.op = "init"
    /\ last.err = "ok"
    /\ \E n \in DOMAIN reg["tables"] :
          /\ reg["tables"][n].has_attrs
          /\ Len(AbsentRegions(World, reg["tables"][n])) = 1
          /\ Len(reg["tables"][n].uns.region) = 2

-----------------------------------------------------------------------------
(* Properties of binding a table to an annotation target *)

\* the annotation metadata of a table: whether a record exists, and its entries
Metadata(table) == [has_attrs |-> table.has_attrs, uns |-> table.uns]

\* the column a bind compares with the region: the one given, else the stored one
BindRegionKey(table, a) == IF a.region_key # NoneArg THEN a.region_key ELSE table.uns.region_key
BindInstanceKey(table, a) == IF a.instance_key # NoneArg THEN a.instance_key ELSE table.uns.instance_key

\* the bind a names a table, a target and key columns that exist, so that its
\* outcome rests on the symmetry of the region-key column alone
ReachesSymmetryCheck(w, table_name, a) ==
    /\ table_name \in DOMAIN w.reg["tables"]
    /\ a.region \in ElementNames(w)
    /\ LET table == w.reg["tables"][table_name]
       IN /\ table.has_attrs \/ (a.region_key # NoneArg /\ a.instance_key # NoneArg)
          /\ HasColumn(table, BindRegionKey(table, a))
          /\ HasColumn(table, BindInstanceKey(table, a))

\* C8: a bind whose region-key column holds only the declared region succeeds;
\* one whose column holds an undeclared value fails with the symmetry error and
\* leaves the table's metadata (region, region_key, instance_key, and whether a
\* record exists) as it was before the call, overrides supplied or not.
C8_SymmetryFailureLeavesMetadata ==
    [][(last'.op = "bind" /\ ReachesSymmetryCheck(World, last'.key, last'.arg)) =>
        LET table == reg["tables"][last'.key]
            after == reg'["tables"][last'.key]
        IN IF Range(table.obs[BindRegionKey(table, last'.arg)]) \subseteq {last'.arg.region}
           THEN last'.err = "ok"
           ELSE /\ last'.err = "ValueError(symmetry)"
                /\ Metadata(after) = Metadata(table)]_vars

\* C9: a bind on a table of the container whose region names no image, label,
\* point or shape fails with the unknown-target error, also when the
\* missing-keys condition holds too; with a known target, a table without
\* metadata and a key left out it fails with the missing-keys error; both
\* failures leave the container and the table as they were.
C9_TargetThenKeys ==
    [][(last'.op = "bind" /\ last'.key \in DOMAIN reg["tables"]) =>
        LET table == reg["tables"][last'.key]
            a == last'.arg
        IN /\ a.region \notin ElementNames(World) =>
                 (last'.err = "ValueError(target)" /\ UnchangedWorld)
           /\ (/\ a.region \in ElementNames(World)
               /\ ~table.has_attrs
               /\ (a.region_key = NoneArg \/ a.instance_key = NoneArg)) =>
                 (last'.err = "TypeError(keys)" /\ UnchangedWorld)]_vars

\* a bind that named a table as its target, on a table without metadata and
\* with no region key given, has failed with the unknown-target error
C9_Witness ==
    /\ last.op = "bind"
    /\ last.err = "ValueError(target)"
    /\ last.key \in DOMAIN reg["tables"]
    /\ last.arg.region \in DOMAIN reg["tables"]
    /\ ~reg["tables"][last.key].has_attrs
    /\ last.arg.region_key = NoneArg

\* C10: a successful bind on a table that carries metadata leaves a metadata
\* record with the same entries, whose region is the new one, whose region_key
\* and instance_key are the ones supplied, or the stored ones where none was
\* supplied; no bind modifies the rows of the table.
C10_OnlyRegionOverwritten ==
    [][(last'.op = "bind" /\ last'.key \in DOMAIN reg["tables"]) =>
        LET table == reg["tables"][last'.key]
            after == reg'["tables"][last'.key]
            a == last'.arg
        IN /\ after.obs = table.obs
           /\ after.dtypes = table.dtypes
           /\ (last'.err = "ok" /\ table.has_attrs) =>
                 /\ after.has_attrs
                 /\ DOMAIN after.uns = DOMAIN table.uns
                 /\ after.uns.region = <<a.region>>
                 /\ after.uns.region_key = BindRegionKey(table, a)
                 /\ after.uns.instance_key = BindInstanceKey(table, a)]_vars

\* a bind with a region key and no instance key has succeeded, so the table
\* carried metadata, and the stored region key is the one supplied
C10_Witness ==
    /\ last.op = "bind"
    /\ last.err = "ok"
    /\ last.arg.region_key = "region2"
    /\ last.arg.instance_key = NoneArg
    /\ reg["tables"][last.key].uns.region_key = "region2"
    /\ reg["tables"][last.key].uns.region = <<last.arg.region>>

-----------------------------------------------------------------------------
(* Properties of renaming coordinate systems *)

OldKeys(items) == {items[i][1] : i \in 1..Len(items)}
UnknownOld(cs, items) == \E i \in 1..Len(items) : items[i][1] \notin cs
TakenNew(cs, items) == \E i \in 1..Len(items) : items[i][2] \in cs \ OldKeys(items)
RepeatedNew(items) == \E i, j \in 1..Len(items) : i < j /\ items[i][2] = items[j][2]

\* C11, as stated: a rename fails, leaving every ledger as it was, when an
\* old key is no current coordinate system or a new name is a current
\* coordinate system that is no key of the mapping; every other mapping, one
\* whose new names meet only coordinate systems renamed away, is accepted.
C11_RejectsOnlyUnknownOrTaken ==
    [][last'.op = "rename" =>
        LET cs == coordinate_systems(World, ledger)
        IN IF UnknownOld(cs, last'.arg) \/ TakenNew(cs, last'.arg)
           THEN last'.err # "ok" /\ ledger' = ledger
           ELSE last'.err = "ok"]_vars

\* C11, amended: a rename fails, leaving every ledger as it was, when an old
\* key is no current coordinate system, when a new name is a current
\* coordinate system that is no key of the mapping, or when two keys have the
\* same new name; every other mapping, the swap among them, is accepted.
C11_RenameAcceptance ==
    [][last'.op = "rename" =>
        LET cs == coordinate_systems(World, ledger)
        IN /\ UnknownOld(cs, last'.arg) => (last'.err # "ok" /\ ledger' = ledger)
           /\ TakenNew(cs, last'.arg) => (last'.err # "ok" /\ ledger' = ledger)
           /\ RepeatedNew(last'.arg) => (last'.err # "ok" /\ ledger' = ledger)
           /\ last'.err = "ValueError(unknown)" => UnknownOld(cs, last'.arg)
           /\ last'.err = "ValueError(exists)" => (TakenNew(cs, last'.arg) \/ RepeatedNew(last'.arg))
           /\ last'.err \in {"ok", "ValueError(unknown)", "ValueError(exists)"}]_vars

\* a swap of two coordinate systems has been accepted
C11_Witness ==
    /\ last.op = "rename"
    /\ last.err = "ok"
    /\ Len(last.arg) = 2
    /\ last.arg[1][1] # last.arg[1][2]
    /\ last.arg[2] = <<last.arg[1][2], last.arg[1][1]>>

NewName(items, k) == IF k \in OldKeys(items) THEN (CHOOSE p \in Range(items) : p[1] = k)[2] ELSE k

\* C12: after a successful rename the ledger of every element of the
\* container has as many entries as before, and holds under the new name of
\* each old key the transformation that key held.
C12_RenameIsBijection ==
    [][(last'.op = "rename" /\ last'.err = "ok") =>
        \A e \in SpatialIds(World) :
            /\ Cardinality(DOMAIN ledger'[e]) = Cardinality(DOMAIN ledger[e])
            /\ DOMAIN ledger'[e] = {NewName(last'.arg, k) : k \in DOMAIN ledger[e]}
            /\ \A k \in DOMAIN ledger[e] : ledger'[e][NewName(last'.arg, k)] = ledger[e][k]]_vars

-----------------------------------------------------------------------------
(* Properties of derived containers *)

\* the spatial elements of the container with one of the names as a key of
\* their ledger
InCoordinateSystems(names) ==
    {p \in SpatialEntries(World) : DOMAIN ledger[reg[p[1]][p[2]].id] \cap names # {}}

\* the values of a table's region-key column that are among the names of S
SurvivingRegions(table, S) == SelectSeq(table.obs[table.uns.region_key], LAMBDA v : v \in S)

\* C13: filter_by_coordinate_system returns a container whose spatial
\* registries hold, under the same kind and name, exactly the elements of
\* the source with one of the requested coordinate systems in their ledger,
\* the same objects; its tables are tables of the source, never elements.
C13_FilterSelectsByLedger ==
    last.op = "filter_by_coordinate_system" =>
        /\ last.err = "ok"
        /\ \A k \in SpatialKinds :
              /\ DOMAIN last.ret[k] = {p[2] : p \in {q \in InCoordinateSystems(last.arg.names) : q[1] = k}}
              /\ \A n \in DOMAIN last.ret[k] : last.ret[k][n] = reg[k][n]
        /\ DOMAIN last.ret["tables"] \subseteq DOMAIN reg["tables"]

\* a filter has kept one element of a container with a table and left out
\* another, which has none of the requested coordinate systems
C13_Witness ==
    /\ last.op = "filter_by_coordinate_system"
    /\ last.err = "ok"
    /\ reg["tables"] # <<>>
    /\ \E k \in SpatialKinds : last.ret[k] # <<>>
    /\ \E k \in SpatialKinds : DOMAIN reg[k] \ DOMAIN last.ret[k] # {}

\* C14: subset returns a container whose spatial registries are those of the
\* source cut down to the names asked for; a table whose name is asked for is
\* kept with all its rows, filtering or not; with filter_tables every other
\* table with metadata keeps exactly the rows that annotate a selected
\* element, a name that names no element keeping none; without filter_tables
\* every table is kept as it is.
C14_SubsetKeepsNamed ==
    last.op = "subset" =>
        LET names == last.arg.names
            selected == names \cap ElementNames(World)
            out == last.ret["tables"]
        IN /\ last.err = "ok"
           /\ \A k \in SpatialKinds : last.ret[k] = Restrict(reg[k], names)
           /\ \A n \in DOMAIN reg["tables"] \cap names : n \in DOMAIN out /\ out[n] = reg["tables"][n]
           /\ ~last.arg.filter_tables => out = reg["tables"]
           /\ last.arg.filter_tables =>
                 \A n \in DOMAIN reg["tables"] \ names :
                     (n \in DOMAIN out /\ reg["tables"][n].has_attrs) =>
                         /\ out[n].obs[out[n].uns.region_key] = SurvivingRegions(reg["tables"][n], selected)
                         /\ NRows(out[n]) = Len(SurvivingRegions(reg["tables"][n], selected))

\* a subset asked for "b", which names no element, in a container with a
\* table that annotates "b" and was not asked for: no row of "b" is kept
C14_Witness ==
    /\ last.op = "subset"
    /\ last.err = "ok"
    /\ last.arg.filter_tables
    /\ "b" \in last.arg.names
    /\ "b" \notin ElementNames(World)
    /\ "table" \in DOMAIN reg["tables"] \ last.arg.names
    /\ reg["tables"]["table"].has_attrs
    /\ "b" \in Range(reg["tables"]["table"].obs["region"])
    /\ "table" \in DOMAIN last.ret["tables"]
    /\ "b" \notin Range(last.ret["tables"]["table"].obs["region"])

\* C15: for a keep-set S of element names, every table with metadata that
\* subset(S, filter_tables=True) returns has the values of its region-key
\* column in S; with include_orphan_tables=True every table without metadata
\* is in the result as it is, whatever S.
C15_SubsetTablesWithinKeepSet ==
    (last.op = "subset" /\ last.arg.filter_tables) =>
        /\ last.arg.names \cap DOMAIN reg["tables"] = {} =>
              \A n \in DOMAIN last.ret["tables"] :
                  last.ret["tables"][n].has_attrs =>
                      Range(last.ret["tables"][n].obs[last.ret["tables"][n].uns.region_key]) \subseteq last.arg.names
        /\ last.arg.include_orphan_tables =>
              \A n \in DOMAIN reg["tables"] :
                  ~reg["tables"][n].has_attrs =>
                      (n \in DOMAIN last.ret["tables"] /\ last.ret["tables"][n] = reg["tables"][n])

\* a subset has returned a table without metadata next to a table that lost
\* a row to the keep-set
C15_Witness ==
    /\ last.op = "subset"
    /\ last.arg.filter_tables
    /\ last.arg.include_orphan_tables
    /\ last.arg.names \cap DOMAIN reg["tables"] = {}
    /\ \E n \in DOMAIN last.ret["tables"] : ~last.ret["tables"][n].has_attrs
    /\ \E n \in DOMAIN last.ret["tables"] :
          /\ last.ret["tables"][n].has_attrs
          /\ NRows(last.ret["tables"][n]) < NRows(reg["tables"][n])

\* the names a filtering call keeps rows for: the elements in the requested
\* coordinate systems, or the elements asked for by name
KeepSet ==
    IF last.op = "subset" THEN last.arg.names \cap ElementNames(World)
    ELSE {p[2] : p \in InCoordinateSystems(last.arg.names)}

\* the tables a filtering call filters: not asked for by name, and with
\* metadata
FilteredTables ==
    {n \in DOMAIN reg["tables"] :
        /\ reg["tables"][n].has_attrs
        /\ ~(last.op = "subset" /\ n \in last.arg.names)}

\* C16: by coordinate system or by element names, with filter_tables a
\* table that is filtered is absent from the result when no row of it
\* survives, and present with its surviving rows alone when one does.
C16_EmptyTablesDropped ==
    (last.op \in {"subset", "filter_by_coordinate_system"} /\ last.arg.filter_tables) =>
        \A n \in FilteredTables :
            IF SurvivingRegions(reg["tables"][n], KeepSet) = <<>>
            THEN n \notin DOMAIN last.ret["tables"]
            ELSE /\ n \in DOMAIN last.ret["tables"]
                 /\ last.ret["tables"][n].obs[reg["tables"][n].uns.region_key]
                        = SurvivingRegions(reg["tables"][n], KeepSet)
                 /\ NRows(last.ret["tables"][n]) = Len(SurvivingRegions(reg["tables"][n], KeepSet))

\* a filter by coordinate system has dropped one table, no row of which
\* survived, and kept another with fewer rows than it had
C16_Witness ==
    /\ last.op = "filter_by_coordinate_system"
    /\ last.arg.filter_tables
    /\ \E n \in FilteredTables : n \notin DOMAIN last.ret["tables"]
    /\ \E n \in FilteredTables :
          /\ n \in DOMAIN last.ret["tables"]
          /\ NRows(last.ret["tables"][n]) < NRows(reg["tables"][n])


-----------------------------------------------------------------------------
(* Properties of the stores *)

IsPrefix(p, c) == Len(p) <= Len(c) /\ \A i \in 1..Len(p) : p[i] = c[i]
TargetPresent(t) == t \in DOMAIN disk
TargetIsStore(t) == TargetPresent(t) /\ disk[t].zarr
WouldOrphan(t) == \E e \in SpatialIds(World) : \E f \in backing[e] : IsPrefix(t, f)
InsideBacking(t) == path # NoPath /\ IsPrefix(path, t)
AroundBacking(t) == path # NoPath /\ IsPrefix(t, path)

\* what the guard answers to the attempt recorded in last
GuardAnswer(t, overwrite, saving_an_element, err) ==
    /\ err = "ok" <=> (~TargetPresent(t) \/ (TargetIsStore(t) /\ overwrite /\ ~WouldOrphan(t)
                                                /\ ~InsideBacking(t) /\ ~AroundBacking(t)))
    /\ err = "ValueError(not-a-store)" <=> (TargetPresent(t) /\ ~TargetIsStore(t))
    /\ err = "ValueError(exists)" <=> (TargetIsStore(t) /\ ~overwrite)
    /\ err = "ValueError(backing)" <=> (TargetIsStore(t) /\ overwrite /\ WouldOrphan(t))
    /\ err = "ValueError(element)" <=> (TargetIsStore(t) /\ overwrite /\ ~WouldOrphan(t)
                                            /\ InsideBacking(t) /\ saving_an_element)
    /\ err = "ValueError(overlap)" <=> (TargetIsStore(t) /\ overwrite /\ ~WouldOrphan(t)
                                            /\ (InsideBacking(t) \/ AroundBacking(t))
                                            /\ ~(InsideBacking(t) /\ saving_an_element))

\* C17: the guard decides a write attempt by the first check that fails, in
\* this order: an absent target is allowed; a target that is no store is
\* refused as no store; a store without overwrite is refused as existing; a
\* target above a file backing an element is refused as orphaning; a target
\* inside the backing path, for one element, is refused as an element
\* overwrite; a target above or below the backing path is refused as
\* overlapping; anything else is allowed.
C17_GuardOrder ==
    last.op = "validate_write" =>
        GuardAnswer(last.arg.file_path, last.arg.overwrite, last.arg.saving_an_element, last.err)

\* an attempt that both orphans backing data and overlaps the backing path
C17_Witness ==
    /\ last.op = "validate_write"
    /\ last.err = "ValueError(backing)"
    /\ AroundBacking(last.arg.file_path)

\* C18: a write with overwrite to a store that lies above a file backing an
\* element of the container fails as orphaning and writes nothing: the disk,
\* the backing files and the path of the container stay as they were.
C18_OrphaningWriteWritesNothing ==
    [][(/\ last'.op = "write"
        /\ last'.arg.overwrite
        /\ TargetIsStore(last'.arg.file_path)
        /\ WouldOrphan(last'.arg.file_path))
       => (/\ last'.err = "ValueError(backing)"
           /\ disk' = disk
           /\ backing' = backing
           /\ path' = path)]_vars

C18_Witness ==
    /\ last.op = "write"
    /\ last.arg.overwrite
    /\ last.err = "ValueError(backing)"
    /\ WouldOrphan(last.arg.file_path)

\* the group of a named element in the backing store
GroupOf(name) == path \o <<CHOOSE k \in KindSet : name \in DOMAIN reg[k], name>>
Held(name) == Cardinality({k \in KindSet : name \in DOMAIN reg[k]}) = 1

WrittenAsHeld ==
    /\ path # NoPath
    /\ path \in DOMAIN disk
    /\ \A k \in KindSet :
          /\ {q[Len(q)] : q \in {x \in DOMAIN disk : Len(x) = Len(path) + 2 /\ IsPrefix(path \o <<k>>, x)}} = DOMAIN reg[k]
          /\ \A n \in DOMAIN reg[k] :
                /\ disk[path \o <<k, n>>].holds = reg[k][n]
                /\ disk[path \o <<k, n>>].ledger = LedgerOf(ledger, reg[k][n])

\* C20: a container with elements of all five kinds, written to a store and
\* read back from it, gives a container with the same names under the same
\* kinds and the same coordinate systems.
C20_RoundTrip ==
    (/\ last.op = "read_zarr"
     /\ WrittenAsHeld
     /\ last.arg = path
     /\ \A k \in KindSet : DOMAIN reg[k] # {})
    => (/\ last.err = "ok"
        /\ \A k \in KindSet : DOMAIN last.ret.reg[k] = DOMAIN reg[k]
        /\ last.ret.coordinate_systems = coordinate_systems(World, ledger))

GuardErrors ==
    {"ValueError(not-a-store)", "ValueError(exists)", "ValueError(backing)", "ValueError(element)",
     "ValueError(overlap)"}

\* C21: an error of the guard is raised before the call does anything to the
\* disk: a write that ends with a guard error, of the target or of one of its
\* elements, has not made or replaced the root nor written an element, and a
\* write_element that ends with one has made no group.
C21_GuardErrorsBeforeDiskIO ==
    [][(last'.op \in {"write", "write_element"} /\ last'.err \in GuardErrors) => disk' = disk]_vars

C21_Witness ==
    /\ last.op = "write"
    /\ last.err \in GuardErrors
    /\ TargetPresent(last.arg.file_path)
    /\ AllEntries(World) # {}

\* C22: write changes nothing in memory but the path: after a write that
\* succeeded the registries, the ledgers and the tables are as before and the
\* path is the target; after a write that failed, at the guard or while an
\* element was written, the path is what it was.
C22_WriteOnlyMovesPath ==
    [][last'.op = "write" =>
        /\ reg' = reg /\ keyref' = keyref /\ keysets' = keysets /\ shared_keys' = shared_keys
        /\ ledger' = ledger
        /\ last'.err = "ok" => path' = last'.arg.file_path
        /\ last'.err # "ok" => path' = path]_vars

\* a write that failed while an element was written, after the root was made
C22_Witness ==
    /\ last.op = "write"
    /\ last.err = "IOError"
    /\ path # last.arg.file_path
    /\ last.arg.file_path \in DOMAIN disk

\* C29, as stated: once write(p) has succeeded, every later write(p) of the
\* container while p exists fails, as existing without overwrite, and leaves
\* the store and the path of the container as they were.
C29_NeverRewritesWrittenStore ==
    [][(last'.op = "write" /\ last'.arg.file_path \in written /\ TargetPresent(last'.arg.file_path))
       => (/\ last'.err # "ok"
           /\ ~last'.arg.overwrite => last'.err = "ValueError(exists)"
           /\ disk' = disk
           /\ path' = path)]_vars

\* C29, amended: once write(p) has succeeded, every later write(p) of the
\* container while p exists and is still the path of the container fails, as
\* existing without overwrite and with a guard error with overwrite, and
\* leaves the store and the path of the container as they were.
C29_NeverRewritesBackingStore ==
    [][(/\ last'.op = "write"
        /\ last'.arg.file_path \in written
        /\ last'.arg.file_path = path
        /\ TargetPresent(last'.arg.file_path))
       => (/\ ~last'.arg.overwrite => last'.err = "ValueError(exists)"
           /\ last'.arg.overwrite => last'.err \in {"ValueError(backing)", "ValueError(overlap)"}
           /\ disk' = disk
           /\ path' = path)]_vars

C29_Witness ==
    /\ last.op = "write"
    /\ last.arg.overwrite
    /\ last.arg.file_path \in written
    /\ last.arg.file_path = path
    /\ last.err = "ValueError(overlap)"

\* the group of the named element in the store of the container
ElementGroup(name) == path \o <<CHOOSE k \in SpatialKinds : name \in DOMAIN reg[k], name>>
HeldSpatial(name) == \E k \in SpatialKinds : name \in DOMAIN reg[k]

\* C23: write_transformations of one element writes nothing unless the
\* container is backed; when the group of the element is not in the store it
\* warns and leaves the disk as it was, making no group; when it writes, only
\* the transformations of the group of that element change, never what the
\* group holds nor any other group; an element that is not self-contained
\* gives a message and no error.
C23_MetadataOnlyWrite ==
    [][last'.op = "write_transformations" =>
        /\ path = NoPath => disk' = disk
        /\ (path # NoPath /\ HeldSpatial(last'.key) /\ ElementGroup(last'.key) \notin DOMAIN disk)
              => (disk' = disk /\ last'.err = "ok" /\ last'.warned = <<"UserWarning">>)
        /\ DOMAIN disk' = DOMAIN disk
        /\ \A q \in DOMAIN disk :
              /\ disk'[q].holds = disk[q].holds
              /\ disk'[q].zarr = disk[q].zarr
              /\ disk'[q] # disk[q] => (HeldSpatial(last'.key) /\ q = ElementGroup(last'.key))
        /\ "info" \in Range(last'.warned) => last'.err = "ok"]_vars

\* the transformations of an element that is not self-contained were written
C23_Witness ==
    /\ last.op = "write_transformations"
    /\ last.err = "ok"
    /\ "info" \in Range(last.warned)
    /\ disk[ElementGroup(last.key)].ledger = ledger[reg["labels"][last.key].id]

-----------------------------------------------------------------------------
(* Properties of the transformations to a coordinate system *)

\* the element a call of transform_element names
Transformed(name) == get(World, name, DefaultValue)

\* the coordinate systems an element reaches: its own, and those of every
\* element that shares a coordinate system with what it reaches
RECURSIVE ReachedIn(_, _)
ReachedIn(S, n) ==
    IF n = 0 THEN S
    ELSE ReachedIn(S \cup UNION {DOMAIN ledger[g] : g \in {h \in SpatialIds(World) : DOMAIN ledger[h] \cap S # {}}},
                   n - 1)
Reaches(name, cs) == cs \in ReachedIn(DOMAIN ledger[Transformed(name).id], Cardinality(CSNames))

\* C24: transform_element_to_coordinate_system without maintain_positioning
\* gives, for every element that reaches the target, an element whose
\* transformations have one key, the target, whether the element has a
\* transformation to the target itself or not.
C24_ResultHasOnlyTarget ==
    [][(/\ last'.op = "transform_element"
        /\ ~last'.arg.maintain_positioning
        /\ ~last'.arg.raises
        /\ Reaches(last'.key, last'.arg.target_coordinate_system))
       => (/\ last'.err = "ok"
           /\ DOMAIN last'.ret = {last'.arg.target_coordinate_system})]_vars

\* an element that reaches the target through another element
C24_Witness ==
    /\ last.op = "transform_element"
    /\ ~last.arg.maintain_positioning
    /\ last.err = "ok"
    /\ last.arg.target_coordinate_system \notin DOMAIN ledger[Transformed(last.key).id]
    /\ DOMAIN last.ret = {last.arg.target_coordinate_system}

\* the names of a kind whose element has a transformation to the target
WithTarget(k, cs) == {n \in DOMAIN reg[k] : cs \in DOMAIN ledger[reg[k][n].id]}

\* C25: transform_to_coordinate_system gives a new container whose elements
\* are the transformed elements of the old one that have the target among
\* their transformations, under the same names and kinds, and whose tables
\* are all the tables of the old one.
C25_TransformsThoseWithTarget ==
    [][(last'.op = "transform_to_coordinate_system" /\ last'.err = "ok")
       => (/\ \A k \in SpatialKinds :
                 /\ DOMAIN last'.ret.reg[k] = WithTarget(k, last'.arg.target_coordinate_system)
                 /\ \A n \in WithTarget(k, last'.arg.target_coordinate_system) :
                       /\ last'.ret.reg[k][n] = reg[k][n]
                       /\ <<k, n>> \in DOMAIN last'.ret.transformations
                       /\ last'.arg.target_coordinate_system \in DOMAIN last'.ret.transformations[<<k, n>>]
                       /\ ~last'.arg.maintain_positioning =>
                              DOMAIN last'.ret.transformations[<<k, n>>] = {last'.arg.target_coordinate_system}
           /\ DOMAIN last'.ret.transformations =
                  UNION {{<<k, n>> : n \in WithTarget(k, last'.arg.target_coordinate_system)} : k \in SpatialKinds}
           /\ last'.ret.reg["tables"] = reg["tables"])]_vars

\* an element was left out and a table whose rows annotate it was kept whole
C25_Witness ==
    /\ last.op = "transform_to_coordinate_system"
    /\ last.err = "ok"
    /\ \E k \in SpatialKinds : \E n \in DOMAIN reg[k] :
          /\ n \notin DOMAIN last.ret.reg[k]
          /\ \E t \in DOMAIN reg["tables"] :
                /\ reg["tables"][t].has_attrs
                /\ n \in Range(reg["tables"][t].obs["region"])
                /\ last.ret.reg["tables"][t] = reg["tables"][t]
    /\ \E k \in SpatialKinds : DOMAIN last.ret.reg[k] # {}

\* C28: transform_element_to_coordinate_system leaves the transformations
\* of the element it is given as they were, when it returns and when
\* transform raises: an entry for the target that was put in for the call
\* is not there after it.
C28_InputLedgerUntouched ==
    [][last'.op = "transform_element" => ledger' = ledger]_vars

-----------------------------------------------------------------------------
(* Properties of renaming, with an element under two names *)

\* the mapping is the swap of two coordinate systems
IsSwap(items) == Len(items) = 2 /\ items[1][1] # items[1][2] /\ items[2] = <<items[1][2], items[1][1]>>

\* C27: a rename applies the mapping once to the ledger of each element,
\* also of an element the container holds under more than one name: after
\* a successful swap of A and B the element has under A what it had under B
\* and under B what it had under A.
C27_RenamedOncePerCall ==
    [][(last'.op = "rename" /\ last'.err = "ok" /\ IsSwap(last'.arg)) =>
        \A e \in SpatialIds(World) :
            (TimesYielded(World, e) > 1 /\ {last'.arg[1][1], last'.arg[1][2]} \subseteq DOMAIN ledger[e])
                => (/\ {last'.arg[1][1], last'.arg[1][2]} \subseteq DOMAIN ledger'[e]
                    /\ ledger'[e][last'.arg[1][1]] = ledger[e][last'.arg[1][2]]
                    /\ ledger'[e][last'.arg[1][2]] = ledger[e][last'.arg[1][1]])]_vars

\* C30: a mapping that gives two old coordinate systems one new name is
\* refused with every ledger as it was, and a rename that succeeds merges
\* no two coordinate systems: the container has as many coordinate systems
\* after it as before.
C30_RenameKeepsCount ==
    [][last'.op = "rename" =>
        /\ RepeatedNew(last'.arg) => (last'.err # "ok" /\ ledger' = ledger)
        /\ last'.err = "ok" =>
              Cardinality(coordinate_systems(World, ledger')) = Cardinality(coordinate_systems(World, ledger))]_vars


-----------------------------------------------------------------------------
(* A bulk re-assignment that fails *)

\* C26: a bulk re-assignment of one kind that fails leaves the container as
\* it was before the call: every registry holds what it held, and the
\* shared name-set and the set each registry consults are unchanged.
C26_FailedSetterChangesNothing ==
    [][(last'.op = "setter" /\ last'.err # "ok")
        => /\ reg' = reg
           /\ keysets'[shared_keys'] = keysets[shared_keys]
           /\ \A k \in KindSet : keysets'[keyref'[k]] = keysets[keyref[k]]]_vars

=========================================================================
